---- MODULE Spec2Model ----
(***************************************************************************)
(* cv-optimizer: the fuzzy snippet replacer of the HTML editing workflow   *)
(* (normalizeText, stripHtmlTags, createFlexibleHtmlRegex, findTextInHtml, *)
(* replaceTextFuzzy) and the in-place PDF edit renderer (applyInPlaceEdit, *)
(* fitTextToWidth, wrapText).                                              *)
(*                                                                         *)
(* A JavaScript string is a sequence of one-character strings; offsets and *)
(* indices keep the 0-based values of the source and 1 is added only where *)
(* a TLA+ sequence is indexed.                                             *)
(***************************************************************************)
EXTENDS Integers, Sequences, FiniteSets, TLC

\* ------------------------------------------------------------------ bounds
MaxDocTokens == 4
MaxSnippetTokens == 3
MaxNewTokens == 1
MaxTextTokens == 5
MaxEdits == 3
MaxSuggestions == 2
MaxHtmlTokens == 4

\* ------------------------------------------------------- characters, strings
\* JavaScript's \s, restricted to the whitespace the inputs are built from.
IsSpace(c) == c \in {" ", "\t", "\n"}

\* String.prototype.toLowerCase on one character.
Lower(c) ==
  CASE c = "A" -> "a" [] c = "B" -> "b" [] c = "C" -> "c" [] c = "D" -> "d"
    [] c = "E" -> "e" [] c = "F" -> "f" [] c = "G" -> "g" [] c = "H" -> "h"
    [] c = "I" -> "i" [] c = "J" -> "j" [] c = "K" -> "k" [] c = "L" -> "l"
    [] c = "M" -> "m" [] c = "N" -> "n" [] c = "O" -> "o" [] c = "P" -> "p"
    [] c = "Q" -> "q" [] c = "R" -> "r" [] c = "S" -> "s" [] c = "T" -> "t"
    [] c = "U" -> "u" [] c = "V" -> "v" [] c = "W" -> "w" [] c = "X" -> "x"
    [] c = "Y" -> "y" [] c = "Z" -> "z" [] OTHER -> c

ToLower(s) == [k \in 1..Len(s) |-> Lower(s[k])]

\* s has p at the 1-based position i.
StartsWithAt(s, i, p) ==
  /\ i + Len(p) - 1 <= Len(s)
  /\ \A k \in 1..Len(p) : s[i + k - 1] = p[k]

\* the same, ignoring letter case (the regular expressions' i flag).
StartsWithAtCI(s, i, p) ==
  /\ i + Len(p) - 1 <= Len(s)
  /\ \A k \in 1..Len(p) : Lower(s[i + k - 1]) = Lower(p[k])

\* String.prototype.indexOf: the 0-based offset of the first occurrence, or -1.
IndexOf(s, p) ==
  IF \E i \in 1..(Len(s) + 1) : StartsWithAt(s, i, p)
  THEN (CHOOSE i \in 1..(Len(s) + 1) :
          /\ StartsWithAt(s, i, p)
          /\ \A j \in 1..(i - 1) : ~StartsWithAt(s, j, p)) - 1
  ELSE -1

\* String.prototype.slice(a, b) for 0 <= a, b <= length.
Slice(s, a, b) == IF b <= a THEN <<>> ELSE SubSeq(s, a + 1, b)

\* s.replace(/p/g, r) for a literal, non-empty p.
RECURSIVE ReplaceLitFrom(_, _, _, _)
ReplaceLitFrom(s, p, r, i) ==
  IF i > Len(s) THEN <<>>
  ELSE IF StartsWithAt(s, i, p) THEN r \o ReplaceLitFrom(s, p, r, i + Len(p))
  ELSE <<s[i]>> \o ReplaceLitFrom(s, p, r, i + 1)

ReplaceAllLit(s, p, r) == ReplaceLitFrom(s, p, r, 1)

\* the position after the whitespace run that starts at i (i itself if none).
RECURSIVE SkipSpace(_, _)
SkipSpace(s, i) ==
  IF i <= Len(s) /\ IsSpace(s[i]) THEN SkipSpace(s, i + 1) ELSE i

\* s.replace(/\s+/g, " ")
RECURSIVE CollapseFrom(_, _)
CollapseFrom(s, i) ==
  IF i > Len(s) THEN <<>>
  ELSE IF IsSpace(s[i]) THEN <<" ">> \o CollapseFrom(s, SkipSpace(s, i))
  ELSE <<s[i]>> \o CollapseFrom(s, i + 1)

CollapseSpace(s) == CollapseFrom(s, 1)

\* String.prototype.trim
RECURSIVE TrimEnd(_)
TrimEnd(s) ==
  IF Len(s) > 0 /\ IsSpace(s[Len(s)]) THEN TrimEnd(SubSeq(s, 1, Len(s) - 1)) ELSE s

Trim(s) == LET i == SkipSpace(s, 1) IN TrimEnd(SubSeq(s, i, Len(s)))

\* s.split(/\s+/): the pieces between whitespace runs (one empty piece for "").
RECURSIVE SplitFrom(_, _, _)
SplitFrom(s, i, cur) ==
  IF i > Len(s) THEN <<cur>>
  ELSE IF IsSpace(s[i]) THEN <<cur>> \o SplitFrom(s, SkipSpace(s, i), <<>>)
  ELSE SplitFrom(s, i + 1, Append(cur, s[i]))

SplitSpace(s) == SplitFrom(s, 1, <<>>)

\* the five entities, decoded in the order of the source's replace chain.
DecodeEntities(s) ==
  LET s1 == ReplaceAllLit(s, <<"&", "a", "m", "p", ";">>, <<"&">>)
      s2 == ReplaceAllLit(s1, <<"&", "l", "t", ";">>, <<"<">>)
      s3 == ReplaceAllLit(s2, <<"&", "g", "t", ";">>, <<">">>)
      s4 == ReplaceAllLit(s3, <<"&", "q", "u", "o", "t", ";">>, <<"\"">>)
  IN  ReplaceAllLit(s4, <<"&", "#", "0", "3", "9", ";">>, <<"'">>)

\* typographic quotes and dashes, one character each (named by code point).
Ascii(c) ==
  CASE c \in {"U+2018", "U+2019"} -> "'"
    [] c \in {"U+201C", "U+201D"} -> "\""
    [] c \in {"U+2013", "U+2014"} -> "-"
    [] OTHER -> c

normalizeText(text) ==
  LET s1 == CollapseSpace(text)
      s2 == [k \in 1..Len(s1) |-> Ascii(s1[k])]
  IN  Trim(DecodeEntities(s2))

\* the length of the match of /^<br\s*\/?>/i at position i, 0 if there is none.
BrLenAt(s, i) ==
  IF StartsWithAtCI(s, i, <<"<", "b", "r">>)
  THEN LET j == SkipSpace(s, i + 3)
           k == IF j <= Len(s) /\ s[j] = "/" THEN j + 1 ELSE j
       IN  IF k <= Len(s) /\ s[k] = ">" THEN k + 1 - i ELSE 0
  ELSE 0

\* the length of the match of /<[^>]+>/ that starts at position i, 0 if none.
RECURSIVE FirstGt(_, _)
FirstGt(s, j) == IF j > Len(s) THEN 0 ELSE IF s[j] = ">" THEN j ELSE FirstGt(s, j + 1)

TagLenAt(s, i) ==
  IF i <= Len(s) /\ s[i] = "<"
  THEN LET j == FirstGt(s, i + 1) IN IF j > i + 1 THEN j + 1 - i ELSE 0
  ELSE 0

RECURSIVE BrToSpaceFrom(_, _)
BrToSpaceFrom(s, i) ==
  IF i > Len(s) THEN <<>>
  ELSE IF BrLenAt(s, i) > 0 THEN <<" ">> \o BrToSpaceFrom(s, i + BrLenAt(s, i))
  ELSE <<s[i]>> \o BrToSpaceFrom(s, i + 1)

RECURSIVE DropTagsFrom(_, _)
DropTagsFrom(s, i) ==
  IF i > Len(s) THEN <<>>
  ELSE IF TagLenAt(s, i) > 0 THEN DropTagsFrom(s, i + TagLenAt(s, i))
  ELSE <<s[i]>> \o DropTagsFrom(s, i + 1)

stripHtmlTags(html) ==
  Trim(CollapseSpace(DecodeEntities(DropTagsFrom(BrToSpaceFrom(html, 1), 1))))

\* ------------------------------------------------------ regular expressions
\* A compiled pattern: literal words (matched ignoring case) and the separator
\* that joins them; "flex" is (?:\s*(?:<br\s*/?>)?\s*|\s+), "simple" is \s+.
NullRegex == [sep |-> "null", words |-> <<>>]

createFlexibleHtmlRegex(text) ==
  LET normalized == normalizeText(text)
      words == SelectSeq(SplitSpace(normalized), LAMBDA w : Len(w) > 0)
  IN  IF Len(words) = 0 THEN NullRegex ELSE [sep |-> "flex", words |-> words]

\* The positions at which a separator that starts at e can end, in the order
\* the backtracking matcher tries them.  A word never starts with whitespace,
\* so only the ends that have consumed the whole whitespace run can be
\* followed by a word: past an optional <br> tag (tried first, the group is
\* greedy) or before it.
SepEnds(s, e, sep) ==
  LET w == SkipSpace(s, e)
      b == BrLenAt(s, w)
  IN  IF sep = "flex"
      THEN (IF b > 0 THEN <<SkipSpace(s, w + b)>> ELSE <<>>) \o <<w>>
      ELSE IF w > e THEN <<w>> ELSE <<>>

\* The end (1-based, exclusive) of the match of words k.. of re at position i
\* of s, 0 if there is none.
RECURSIVE MatchAt(_, _, _, _)
RECURSIVE FirstEnd(_, _, _, _, _)
MatchAt(s, i, re, k) ==
  IF ~StartsWithAtCI(s, i, re.words[k]) THEN 0
  ELSE LET e == i + Len(re.words[k])
       IN  IF k = Len(re.words) THEN e
           ELSE FirstEnd(s, SepEnds(s, e, re.sep), re, k + 1, 1)

FirstEnd(s, ends, re, k, n) ==
  IF n > Len(ends) THEN 0
  ELSE LET m == MatchAt(s, ends[n], re, k)
       IN  IF m # 0 THEN m ELSE FirstEnd(s, ends, re, k, n + 1)

\* RegExp.prototype.exec from lastIndex: the leftmost match <<start, end>> at
\* or after the 1-based position from, <<0, 0>> if there is none.
RECURSIVE ExecFrom(_, _, _)
ExecFrom(s, re, from) ==
  IF from > Len(s) + 1 THEN <<0, 0>>
  ELSE LET e == MatchAt(s, from, re, 1)
       IN  IF e # 0 THEN <<from, e>> ELSE ExecFrom(s, re, from + 1)

\* RegExp.prototype.test on a fresh pattern (lastIndex 0).
RegexTest(s, re) == ExecFrom(s, re, 1)[1] # 0

\* all matches of a g-flagged pattern, left to right, not overlapping; past an
\* empty match the search resumes one character further.
RECURSIVE AllMatches(_, _, _)
AllMatches(s, re, from) ==
  LET m == ExecFrom(s, re, from)
  IN  IF m[1] = 0 THEN <<>>
      ELSE <<m>> \o AllMatches(s, re, IF m[2] = m[1] THEN m[2] + 1 ELSE m[2])

\* GetSubstitution of String.prototype.replace for a pattern without capture
\* groups: $$ is "$", $& the match, $` the text before it, $' the text after.
RECURSIVE GetSubstitution(_, _, _, _, _)
GetSubstitution(matched, str, position, replacement, k) ==
  IF k > Len(replacement) THEN <<>>
  ELSE IF replacement[k] = "$" /\ k < Len(replacement)
       THEN LET c == replacement[k + 1]
            IN  CASE c = "$" -> <<"$">> \o GetSubstitution(matched, str, position, replacement, k + 2)
                  [] c = "&" -> matched \o GetSubstitution(matched, str, position, replacement, k + 2)
                  [] c = "`" -> Slice(str, 0, position)
                                  \o GetSubstitution(matched, str, position, replacement, k + 2)
                  [] c = "'" -> Slice(str, position + Len(matched), Len(str))
                                  \o GetSubstitution(matched, str, position, replacement, k + 2)
                  [] OTHER -> <<"$">> \o GetSubstitution(matched, str, position, replacement, k + 1)
       ELSE <<replacement[k]>> \o GetSubstitution(matched, str, position, replacement, k + 1)

\* html.replace(regex, newText) with the g flag: every match is replaced.
RECURSIVE SpliceMatches(_, _, _, _, _)
SpliceMatches(s, ms, rep, n, from) ==
  IF n > Len(ms) THEN Slice(s, from - 1, Len(s))
  ELSE Slice(s, from - 1, ms[n][1] - 1)
         \o GetSubstitution(Slice(s, ms[n][1] - 1, ms[n][2] - 1), s, ms[n][1] - 1, rep, 1)
         \o SpliceMatches(s, ms, rep, n + 1, ms[n][2])

ReplaceRegex(s, re, rep) == SpliceMatches(s, AllMatches(s, re, 1), rep, 1, 1)

\* html.replace(pattern, newText) with a string pattern: the first occurrence.
ReplaceString(s, pattern, rep) ==
  LET pos == IndexOf(s, pattern)
  IN  IF pos = -1 THEN s
      ELSE Slice(s, 0, pos) \o GetSubstitution(pattern, s, pos, rep, 1)
             \o Slice(s, pos + Len(pattern), Len(s))

\* ----------------------------------------------------------- findTextInHtml
NotFound == [found |-> FALSE, start |-> -1, end |-> -1]

\* the map from plain-text position to HTML position (0-based offsets).
RECURSIVE BuildPlainToHtml(_, _, _, _)
BuildPlainToHtml(nh, i, inTag, acc) ==
  IF i >= Len(nh) THEN acc
  ELSE LET char == nh[i + 1]
       IN  IF char = "<"
           THEN BuildPlainToHtml(nh, i + 1, TRUE,
                                 IF BrLenAt(nh, i + 1) > 0 THEN Append(acc, i) ELSE acc)
           ELSE IF char = ">" THEN BuildPlainToHtml(nh, i + 1, FALSE, acc)
           ELSE BuildPlainToHtml(nh, i + 1, inTag,
                                 IF ~inTag THEN Append(acc, i) ELSE acc)

ScanStart ==
  [searchIdx |-> 0, matchStartPlain |-> -1, matchEndPlain |-> -1,
   currentWordIdx |-> 0, wordMatchStart |-> -1]

ScanReset(st) ==
  [st EXCEPT !.currentWordIdx = 0, !.searchIdx = 0,
             !.wordMatchStart = -1, !.matchStartPlain = -1]

\* the word-by-word scan over the plain text; the result carries the
\* boundaries matchStartPlain and matchEndPlain.
RECURSIVE ScanWords(_, _, _, _)
ScanWords(plainChars, searchWords, i, st) ==
  IF ~(i < Len(plainChars) /\ st.currentWordIdx < Len(searchWords)) THEN st
  ELSE
    LET char == plainChars[i + 1]
        currentWord == searchWords[st.currentWordIdx + 1]
    IN
    IF IsSpace(char)
    THEN IF st.wordMatchStart # -1 /\ st.searchIdx = Len(currentWord)
         THEN LET ms == IF st.matchStartPlain = -1 THEN st.wordMatchStart
                        ELSE st.matchStartPlain
              IN  IF st.currentWordIdx + 1 < Len(searchWords)
                  THEN ScanWords(plainChars, searchWords, i + 1,
                         [st EXCEPT !.matchStartPlain = ms,
                                    !.currentWordIdx = st.currentWordIdx + 1,
                                    !.searchIdx = 0, !.wordMatchStart = -1])
                  ELSE [st EXCEPT !.matchStartPlain = ms,
                                  !.currentWordIdx = st.currentWordIdx + 1,
                                  !.matchEndPlain = i]
         ELSE IF st.wordMatchStart # -1
              THEN ScanWords(plainChars, searchWords, i + 1, ScanReset(st))
              ELSE ScanWords(plainChars, searchWords, i + 1, st)
    ELSE IF st.searchIdx < Len(currentWord) /\ char = currentWord[st.searchIdx + 1]
    THEN LET wms == IF st.wordMatchStart = -1 THEN i ELSE st.wordMatchStart
             st1 == [st EXCEPT !.wordMatchStart = wms, !.searchIdx = st.searchIdx + 1]
         IN  IF st1.searchIdx = Len(currentWord)
                  /\ st.currentWordIdx = Len(searchWords) - 1
             THEN [st1 EXCEPT !.matchStartPlain =
                                 IF st.matchStartPlain = -1 THEN wms
                                 ELSE st.matchStartPlain,
                              !.matchEndPlain = i + 1]
             ELSE ScanWords(plainChars, searchWords, i + 1, st1)
    ELSE ScanWords(plainChars, searchWords, i + 1, ScanReset(st))

findTextInHtml(html, searchText) ==
  LET normalizedSearch == normalizeText(searchText)
      plainText == stripHtmlTags(html)
      normalizedPlain == normalizeText(plainText)
      plainIndex == IndexOf(ToLower(normalizedPlain), ToLower(normalizedSearch))
      normalizedHtml == DecodeEntities(html)
      plainToHtml == BuildPlainToHtml(normalizedHtml, 0, FALSE, <<>>)
      searchWords == SplitSpace(ToLower(normalizedSearch))
      st == ScanWords(ToLower(normalizedPlain), searchWords, 0, ScanStart)
  IN  IF plainIndex = -1 THEN NotFound
      ELSE IF st.matchStartPlain = -1 \/ st.matchEndPlain = -1 THEN NotFound
      ELSE IF st.matchStartPlain >= Len(plainToHtml)
                \/ st.matchEndPlain > Len(plainToHtml) THEN NotFound
      ELSE [found |-> TRUE,
            start |-> plainToHtml[st.matchStartPlain + 1],
            end |-> IF st.matchEndPlain < Len(plainToHtml)
                    THEN plainToHtml[st.matchEndPlain + 1] ELSE Len(html)]

\* --------------------------------------------------------- replaceTextFuzzy
\* Method 3's pattern: the normalized search, escaped, each space made \s+.
SimpleRegex(originalText) ==
  [sep |-> "simple", words |-> SplitSpace(normalizeText(originalText))]

\* replaceTextFuzzy with the plain-text locator tried before the flexible regex.
replaceTextFuzzyLocatorFirst(html, originalText, newText) ==
  LET regex == createFlexibleHtmlRegex(originalText)
      found == findTextInHtml(html, originalText)
      simpleRegex == SimpleRegex(originalText)
  IN  IF found.found
      THEN [out |-> Slice(html, 0, found.start) \o newText
                      \o Slice(html, found.end, Len(html)),
            method |-> 2]
      ELSE IF regex # NullRegex /\ RegexTest(html, regex)
      THEN [out |-> ReplaceRegex(html, regex, newText), method |-> 1]
      ELSE IF RegexTest(html, simpleRegex)
      THEN [out |-> ReplaceRegex(html, simpleRegex, newText), method |-> 3]
      ELSE [out |-> ReplaceString(html, originalText, newText), method |-> 4]

\* The returned document, with the method that produced it (4 also when the
\* literal replace finds nothing) and the spans of html it replaced.
replaceTextFuzzy(html, originalText, newText) ==
  LET regex == createFlexibleHtmlRegex(originalText)
      found == findTextInHtml(html, originalText)
      simpleRegex == SimpleRegex(originalText)
  IN  IF regex # NullRegex /\ RegexTest(html, regex)
      THEN [out |-> ReplaceRegex(html, regex, newText), method |-> 1]
      ELSE IF found.found
      THEN [out |-> Slice(html, 0, found.start) \o newText
                      \o Slice(html, found.end, Len(html)),
            method |-> 2]
      ELSE IF RegexTest(html, simpleRegex)
      THEN [out |-> ReplaceRegex(html, simpleRegex, newText), method |-> 3]
      ELSE [out |-> ReplaceString(html, originalText, newText), method |-> 4]

\* ------------------------------------------------- in-place edits on a page
\* Lengths and font sizes are integers counting 1/400 pt, the common
\* denominator of the factors 0.85, 0.5, 1.15 and 0.2 on whole-point boxes.
Scale == 20 * 20

padding == 1
minSize == 6
wrapFloor == 8
maxStart == 12
longText == 3

Min(a, b) == IF a <= b THEN a ELSE b
Max(a, b) == IF a >= b THEN a ELSE b

\* Helvetica's advance widths, in 1/1000 of the font size.
GlyphWidth(c) ==
  CASE c = " " -> 278
    [] c \in {"f", "t", "I"} -> 278
    [] c \in {"i", "j", "l"} -> 222
    [] c = "r" -> 333
    [] c \in {"c", "k", "s", "v", "x", "y", "z", "J"} -> 500
    [] c \in {"m", "M"} -> 833
    [] c \in {"w", "C", "D", "H", "N", "R", "U"} -> 722
    [] c \in {"A", "B", "E", "K", "P", "S", "V", "X", "Y"} -> 667
    [] c \in {"F", "T", "Z"} -> 611
    [] c \in {"G", "O", "Q"} -> 778
    [] c = "W" -> 944
    [] OTHER -> 556

RECURSIVE GlyphSum(_)
GlyphSum(text) == IF Len(text) = 0 THEN 0 ELSE GlyphWidth(Head(text)) + GlyphSum(Tail(text))

\* font.widthOfTextAtSize(text, size) <= maxWidth, the comparison the source
\* makes three times; the measured width is GlyphSum(text) * size / 1000
\* (kerning pairs left out).
WidthFits(text, size, maxWidth) == GlyphSum(text) * size <= 1000 * maxWidth

\* text.split(" "): one piece more than there are spaces, empty pieces kept.
RECURSIVE SplitOnSpace(_, _, _)
SplitOnSpace(s, i, cur) ==
  IF i > Len(s) THEN <<cur>>
  ELSE IF s[i] = " " THEN <<cur>> \o SplitOnSpace(s, i + 1, <<>>)
  ELSE SplitOnSpace(s, i + 1, Append(cur, s[i]))

\* ShrinkToFit stepping down by a whole point instead of half a point.
RECURSIVE ShrinkToFitWholeStep(_, _, _)
ShrinkToFitWholeStep(text, maxWidth, fontSize) ==
  IF fontSize > minSize * Scale
  THEN IF WidthFits(text, fontSize, maxWidth) THEN fontSize
       ELSE ShrinkToFitWholeStep(text, maxWidth, fontSize - Scale)
  ELSE minSize * Scale

RECURSIVE ShrinkToFit(_, _, _)
ShrinkToFit(text, maxWidth, fontSize) ==
  IF fontSize > minSize * Scale
  THEN IF WidthFits(text, fontSize, maxWidth) THEN fontSize
       ELSE ShrinkToFit(text, maxWidth, fontSize - Scale \div 2)
  ELSE minSize * Scale

\* fitTextToWidth without the floor of 8 for texts that will wrap.
fitTextToWidthNoFloor(text, maxWidth, startSize) ==
  LET words == SplitOnSpace(text, 1, <<>>)
  IN  IF Len(words) > longText THEN startSize
      ELSE ShrinkToFit(text, maxWidth, startSize)

\* fitTextToWidth without the shrink loop for short texts.
fitTextToWidthNoShrink(text, maxWidth, startSize) ==
  LET words == SplitOnSpace(text, 1, <<>>)
  IN  IF Len(words) > longText THEN Max(startSize, wrapFloor * Scale)
      ELSE Max(startSize, minSize * Scale)

fitTextToWidth(text, maxWidth, startSize) ==
  LET words == SplitOnSpace(text, 1, <<>>)
  IN  IF Len(words) > longText THEN Max(startSize, wrapFloor * Scale)
      ELSE ShrinkToFit(text, maxWidth, startSize)

\* WrapWords that drops the line in progress when a word overflows it.
RECURSIVE WrapWordsDropOverflow(_, _, _, _, _, _)
WrapWordsDropOverflow(words, k, maxWidth, fontSize, lines, currentLine) ==
  IF k > Len(words)
  THEN IF Len(currentLine) > 0 THEN Append(lines, currentLine) ELSE lines
  ELSE LET word == words[k]
           testLine == IF Len(currentLine) > 0 THEN currentLine \o <<" ">> \o word
                       ELSE word
       IN  IF WidthFits(testLine, fontSize, maxWidth)
           THEN WrapWordsDropOverflow(words, k + 1, maxWidth, fontSize, lines, testLine)
           ELSE WrapWordsDropOverflow(words, k + 1, maxWidth, fontSize, lines, word)

RECURSIVE WrapWords(_, _, _, _, _, _)
WrapWords(words, k, maxWidth, fontSize, lines, currentLine) ==
  IF k > Len(words)
  THEN IF Len(currentLine) > 0 THEN Append(lines, currentLine) ELSE lines
  ELSE LET word == words[k]
           testLine == IF Len(currentLine) > 0 THEN currentLine \o <<" ">> \o word
                       ELSE word
       IN  IF WidthFits(testLine, fontSize, maxWidth)
           THEN WrapWords(words, k + 1, maxWidth, fontSize, lines, testLine)
           ELSE WrapWords(words, k + 1, maxWidth, fontSize,
                          IF Len(currentLine) > 0 THEN Append(lines, currentLine)
                          ELSE lines,
                          word)

wrapText(text, maxWidth, fontSize) ==
  WrapWords(SplitOnSpace(text, 1, <<>>), 1, maxWidth, fontSize, <<>>, <<>>)

DrawText(t, x, y, size) == [op |-> "text", text |-> t, x |-> x, y |-> y, size |-> size]

\* the lines of the wrap path that pass the lineY test, in order.
RECURSIVE DrawLines(_, _, _, _, _)
DrawLines(lines, index, bb, pdfY0, fontSize) ==
  IF index >= Len(lines) THEN <<>>
  ELSE LET lineHeight == (fontSize * 115) \div 100
           lineY == pdfY0 + bb.height - fontSize - index * lineHeight
       IN  (IF lineY > pdfY0 - fontSize
            THEN <<DrawText(lines[index + 1], bb.x, lineY, fontSize)>>
            ELSE <<>>)
             \o DrawLines(lines, index + 1, bb, pdfY0, fontSize)

\* applyInPlaceEdit painting the cover after the text instead of before it.
applyInPlaceEditCoverLast(e, pdfY0) ==
  LET bb == e.bbox
      cover == [op |-> "rect",
                x |-> bb.x - padding * Scale, y |-> pdfY0 - padding * Scale,
                width |-> bb.width + padding * Scale * 2,
                height |-> bb.height + padding * Scale * 2]
      estimatedFontSize == Min((bb.height * 85) \div 100, maxStart * Scale)
      size == fitTextToWidth(e.newText, bb.width, estimatedFontSize)
      baselineY == pdfY0 + (bb.height - size) \div 2 + (size * 2) \div 10
  IN  IF WidthFits(e.newText, size, bb.width)
      THEN [ops |-> <<DrawText(e.newText, bb.x, baselineY, size), cover>>,
            fontSize |-> size, layout |-> "single"]
      ELSE [ops |-> DrawLines(wrapText(e.newText, bb.width, size), 0, bb, pdfY0, size)
                      \o <<cover>>,
            fontSize |-> size, layout |-> "wrap"]

\* The drawing operations applyInPlaceEdit issues on the page, in order, with
\* the font size it chose and the layout branch it took.
applyInPlaceEdit(e, pdfY0) ==
  LET bb == e.bbox
      cover == [op |-> "rect",
                x |-> bb.x - padding * Scale, y |-> pdfY0 - padding * Scale,
                width |-> bb.width + padding * Scale * 2,
                height |-> bb.height + padding * Scale * 2]
      estimatedFontSize == Min((bb.height * 85) \div 100, maxStart * Scale)
      size == fitTextToWidth(e.newText, bb.width, estimatedFontSize)
      baselineY == pdfY0 + (bb.height - size) \div 2 + (size * 2) \div 10
  IN  IF WidthFits(e.newText, size, bb.width)
      THEN [ops |-> <<cover, DrawText(e.newText, bb.x, baselineY, size)>>,
            fontSize |-> size, layout |-> "single"]
      ELSE [ops |-> <<cover>>
                      \o DrawLines(wrapText(e.newText, bb.width, size), 0, bb, pdfY0, size),
            fontSize |-> size, layout |-> "wrap"]

\* ------------------------------------------------------------------ inputs
\* Documents, snippets and replacement texts are built from short tokens, so
\* that tags, entities and words meet within a few tokens.
RECURSIVE Flatten(_)
Flatten(ts) == IF Len(ts) = 0 THEN <<>> ELSE Head(ts) \o Flatten(Tail(ts))

TokenStrings(tokens, n) ==
  {Flatten(ts) : ts \in UNION {[1..k -> tokens] : k \in 0..n}}

DocTokens ==
  {<<"a">>, <<"B">>, <<" ">>, <<"<", "b", "r", ">">>, <<"<", "i", ">">>}
SnippetTokens == {<<"a">>, <<"b">>, <<" ">>}
NewTokens == {<<"c">>, <<"a", "c">>, <<"$", "&">>}

Docs == TokenStrings(DocTokens, MaxDocTokens)
Snippets == TokenStrings(SnippetTokens, MaxSnippetTokens)
NewTexts == TokenStrings(NewTokens, MaxNewTokens)

\* the documents of the specification's concrete scenarios 1, 2 and 5.
Managed == <<"M", "a", "n", "a", "g", "e", "d", " ", "a", " ", "t", "e", "a", "m">>
LedATeam == <<"L", "e", "d", " ", "a", " ", "t", "e", "a", "m">>
Of5Engineers == <<" ", "o", "f", " ", "5", " ", "e", "n", "g", "i", "n", "e", "e", "r", "s">>
BuiltBrScalable ==
  <<"B", "u", "i", "l", "t", "<", "b", "r", ">", " ", "s", "c", "a", "l", "a", "b", "l", "e",
    " ", "s", "y", "s", "t", "e", "m", "s">>
BuiltScalable ==
  <<"B", "u", "i", "l", "t", " ", "s", "c", "a", "l", "a", "b", "l", "e">>
Designed == <<"D", "e", "s", "i", "g", "n", "e", "d">>
Mangaed == <<"M", "a", "n", "g", "a", "e", "d", " ", "a", " ", "t", "e", "a", "m">>

Scenarios ==
  {<<Managed \o Of5Engineers, Managed, LedATeam>>,
   <<BuiltBrScalable, BuiltScalable, Designed>>,
   <<Managed \o Of5Engineers, Mangaed, LedATeam>>}

TextTokens == {<<"a">>, <<" ">>, <<"W">>}
SeniorSoftwareEngineer ==
  <<"S", "e", "n", "i", "o", "r", " ", "S", "o", "f", "t", "w", "a", "r", "e", " ",
    "E", "n", "g", "i", "n", "e", "e", "r">>
EditTexts ==
  TokenStrings(TextTokens, MaxTextTokens)
    \cup {SeniorSoftwareEngineer, LedATeam \o Of5Engineers}

\* bounding boxes, in whole points: degenerate, small and ordinary ones.
Widths == {-2, 0, 3, 5, 8, 12, 20, 120}
Heights == {-2, 0, 4, 8, 10, 14, 30, 69}

\* ------------------------------------------------------------------- state
VARIABLES
  html,          \* the document handed to the first replaceTextFuzzy call
  originalText,  \* its snippet
  newText,       \* its replacement text
  call,          \* the last call made: "none", "replace", "again", "back", "locate"
  ret1,          \* the first call's result: the document and the method used
  ret2,          \* the document returned by the second call
  located,       \* the result of findTextInHtml(html, originalText)
  edit,          \* the AppliedEdit the apply-edits handler is at
  pageHeight,    \* page.getSize().height of the edit's page
  applied,       \* whether applyInPlaceEdit has run for the edit
  page,          \* what it did: the operations drawn, the font size, the layout
  request,       \* the request a route handler was called with
  pc,            \* where the handler is: "idle", "start", "loop", "ocr", "text", "done"
  response,      \* the response it returned
  cursor,        \* apply-edits: the position in appliedEdits of the next edit
  pdfDoc,        \* apply-edits: the loaded document, its pages and its subject
  drawn,         \* apply-edits: the positions of the edits handed to applyInPlaceEdit
  warned,        \* apply-edits: the positions of the edits skipped with a warning
  extractedText, \* optimize: the text the handler holds
  ocrCalls,      \* optimize: the number of performOCR calls
  generateCalls, \* optimize: the number of generateSuggestions calls
  version,       \* which CvOptimizerPage is mounted: "html" or "pdf"
  step,          \* its step
  suggestions,   \* its suggestions
  htmlContent,   \* HTML workflow: the document being edited
  appliedEdits,  \* PDF-mapping workflow: the edits mapped so far
  activeMappingSuggestion, \* PDF-mapping workflow: the suggestion being mapped
  lastCall,      \* the handler called last and its arguments
  isProduction,    \* html2pdf: process.env.NODE_ENV === "production"
  browserInstance, \* html2pdf: the module's browser handle, 0 for null
  browsers,        \* html2pdf: the browsers launched so far, named by the launching call
  callPc,          \* html2pdf: where each convertHtmlToPdf call is
  callBrowser,     \* html2pdf: the browser getBrowser returned to each call, 0 for none
  normInput,       \* normalizeText: the string it is called with (text)
  normalized,      \* normalizeText: the results of the calls made so far, in order
  normCalls,       \* normalizeText: the number of calls made
  nutrientRequest, \* edit-pdf-nutrient: the request body, the document and the call that throws
  nutrientPc,      \* edit-pdf-nutrient: where the handler is
  nutrientPageIndex, \* edit-pdf-nutrient: the page loop's pageIndex
  blockIndex,      \* edit-pdf-nutrient: the position in textBlocks of the next block
  remainingReplacements, \* edit-pdf-nutrient: the replacements not yet matched
  appliedReplacements,   \* edit-pdf-nutrient: the originalText (cut to 50) of those matched
  totalReplacementsMade, \* edit-pdf-nutrient: the counter
  updatedBlocks,   \* edit-pdf-nutrient: the updates collected for the current page
  allUpdates,      \* edit-pdf-nutrient: every update collected, with the replacement it came from
  nutrient,        \* edit-pdf-nutrient: the state of the loaded instance and of the session
  nutrientResponse, \* edit-pdf-nutrient: the response returned
  upload,          \* handleUploadSubmit: what each awaited step of this submission does
  uploadPc,        \* handleUploadSubmit: where the handler is
  isLoading,       \* the page's isLoading
  error            \* the page's error, "null" for none

replaceVars == <<html, originalText, newText, call, ret1, ret2, located>>
editVars == <<edit, pageHeight, applied, page>>
httpVars == <<request, pc, response>>
exportVars == <<cursor, pdfDoc, drawn, warned>>
optimizeVars == <<extractedText, ocrCalls, generateCalls>>
pageVars ==
  <<version, step, suggestions, htmlContent, appliedEdits, activeMappingSuggestion,
    lastCall>>
routeVars == <<httpVars, exportVars, optimizeVars>>
coreVars == <<replaceVars, editVars, routeVars, pageVars>>
browserVars == <<isProduction, browserInstance, browsers, callPc, callBrowser>>
normalizeVars == <<normInput, normalized, normCalls>>
nutrientVars ==
  <<nutrientRequest, nutrientPc, nutrientPageIndex, blockIndex, remainingReplacements,
    appliedReplacements, totalReplacementsMade, updatedBlocks, allUpdates, nutrient,
    nutrientResponse>>
uploadVars == <<upload, uploadPc, isLoading, error>>
serviceVars == <<browserVars, normalizeVars, nutrientVars, uploadVars>>
offBrowser == <<coreVars, normalizeVars, nutrientVars, uploadVars>>
offNormalize == <<coreVars, browserVars, nutrientVars, uploadVars>>
offNutrient == <<coreVars, browserVars, normalizeVars, uploadVars>>
offUpload ==
  <<replaceVars, editVars, routeVars, browserVars, normalizeVars, nutrientVars>>
vars == <<coreVars, serviceVars>>

NoRet == [out |-> <<>>, method |-> 0]
NoEdit == [pageIndex |-> 0, bbox |-> [x |-> 0, y |-> 0, width |-> 0, height |-> 0],
           newText |-> <<>>]
BlankPage == [ops |-> <<>>, fontSize |-> 0, layout |-> "none"]

ReplaceIdle ==
  /\ html = <<>> /\ originalText = <<>> /\ newText = <<>>
  /\ call = "idle" /\ ret1 = NoRet /\ ret2 = <<>> /\ located = NotFound

EditIdle ==
  /\ edit = NoEdit /\ pageHeight = 0 /\ applied = TRUE /\ page = BlankPage

NoRequest == [route |-> "none"]
NoResponse == [status |-> 0]
NoDoc == [loaded |-> FALSE, pages |-> <<>>, subject |-> -1]
NoSuggestion == [id |-> "none"]
NoCall == [name |-> "none"]

RouteIdle ==
  /\ request = NoRequest /\ pc = "idle" /\ response = NoResponse
  /\ cursor = 0 /\ pdfDoc = NoDoc /\ drawn = <<>> /\ warned = <<>>
  /\ extractedText = <<>> /\ ocrCalls = 0 /\ generateCalls = 0

PageIdle ==
  /\ version = "none" /\ step = "upload" /\ suggestions = <<>>
  /\ htmlContent = <<>> /\ appliedEdits = <<>>
  /\ activeMappingSuggestion = NoSuggestion /\ lastCall = NoCall

BrowserIdle ==
  /\ isProduction = FALSE /\ browserInstance = 0 /\ browsers = {}
  /\ callPc = <<>> /\ callBrowser = <<>>

NormalizeIdle == normInput = <<>> /\ normalized = <<>> /\ normCalls = 0

NothingLoaded == [instance |-> "none", session |-> "none"]

NutrientIdle ==
  /\ nutrientRequest = NoRequest /\ nutrientPc = "idle"
  /\ nutrientPageIndex = 0 /\ blockIndex = 0
  /\ remainingReplacements = <<>> /\ appliedReplacements = <<>>
  /\ totalReplacementsMade = 0 /\ updatedBlocks = <<>> /\ allUpdates = <<>>
  /\ nutrient = NothingLoaded /\ nutrientResponse = NoResponse

NoUpload == [file |-> "none"]

UploadIdle ==
  /\ upload = NoUpload /\ uploadPc = "idle" /\ isLoading = FALSE /\ error = "null"

ServiceIdle == BrowserIdle /\ NormalizeIdle /\ NutrientIdle /\ UploadIdle

\* ------------------------------------------------ the snippet replacer, run
InitReplace ==
  /\ \/ \E d \in Docs, s \in Snippets, n \in NewTexts :
          html = d /\ originalText = s /\ newText = n
     \/ \E t \in Scenarios : html = t[1] /\ originalText = t[2] /\ newText = t[3]
  /\ call = "none"
  /\ ret1 = NoRet
  /\ ret2 = <<>>
  /\ located = NotFound
  /\ EditIdle /\ RouteIdle /\ PageIdle
  /\ ServiceIdle

\* replaceTextFuzzy(html, originalText, newText)
Replace ==
  /\ call = "none"
  /\ ret1' = replaceTextFuzzy(html, originalText, newText)
  /\ call' = "replace"
  /\ UNCHANGED <<serviceVars, html, originalText, newText, ret2, located, editVars, routeVars, pageVars>>

\* the same call again, on the document the first call returned
ReplaceAgain ==
  /\ call = "replace"
  /\ ret2' = replaceTextFuzzy(ret1.out, originalText, newText).out
  /\ call' = "again"
  /\ UNCHANGED <<serviceVars, html, originalText, newText, ret1, located, editVars, routeVars, pageVars>>

\* the reverse call, newText back to originalText, on the returned document
ReplaceBack ==
  /\ call = "replace"
  /\ ret2' = replaceTextFuzzy(ret1.out, newText, originalText).out
  /\ call' = "back"
  /\ UNCHANGED <<serviceVars, html, originalText, newText, ret1, located, editVars, routeVars, pageVars>>

\* findTextInHtml(html, originalText) on its own
Locate ==
  /\ call = "none"
  /\ located' = findTextInHtml(html, originalText)
  /\ call' = "locate"
  /\ UNCHANGED <<serviceVars, html, originalText, newText, ret1, ret2, editVars, routeVars, pageVars>>

NextReplace == Replace \/ ReplaceAgain \/ ReplaceBack \/ Locate

SpecReplace == InitReplace /\ [][NextReplace]_vars

\* ------------------------------------------------- the in-place edit, run
InitEdit ==
  /\ \/ \E w \in Widths, h \in Heights, t \in EditTexts :
          edit = [pageIndex |-> 0,
                  bbox |-> [x |-> 100 * Scale, y |-> 200 * Scale,
                            width |-> w * Scale, height |-> h * Scale],
                  newText |-> t]
  /\ pageHeight = 792 * Scale
  /\ applied = FALSE
  /\ page = BlankPage
  /\ ReplaceIdle /\ RouteIdle /\ PageIdle
  /\ ServiceIdle

\* the y coordinate the handler passes: the box's lower edge, from the bottom.
pdfY == pageHeight - edit.bbox.y - edit.bbox.height

\* one pass of the handler's loop for an in-range edit
ApplyEdit ==
  /\ ~applied
  /\ page' = applyInPlaceEdit(edit, pdfY)
  /\ applied' = TRUE
  /\ UNCHANGED <<serviceVars, edit, pageHeight, replaceVars, routeVars, pageVars>>

NextEdit == ApplyEdit

SpecEdit == InitEdit /\ [][NextEdit]_vars

\* ------------------------------------------------- the export routes, run
\* apply-edits: the request's form data and the document behind resumePdf.
MAX_FILE_SIZE == 15 * 1024 * 1024
PageIndexes == {-1, 0, 1, 2, 5}
PageCounts == {1, 3}
ExportBox ==
  [x |-> 100 * Scale, y |-> 200 * Scale, width |-> 120 * Scale, height |-> 14 * Scale]
\* a narrow box lying across ExportBox, for a text that has to wrap
NarrowBox ==
  [x |-> 104 * Scale, y |-> 190 * Scale, width |-> 5 * Scale, height |-> 30 * Scale]
ExportEdits ==
  {[pageIndex |-> p, bbox |-> ExportBox, newText |-> t] :
     p \in PageIndexes, t \in {<<"a">>, <<"W">>}}
    \cup {[pageIndex |-> 0, bbox |-> NarrowBox, newText |-> <<"a", " ", "W">>]}
EditLists == UNION {[1..k -> ExportEdits] : k \in 0..MaxEdits}
OneEdit == <<[pageIndex |-> 0, bbox |-> ExportBox, newText |-> <<"a">>]>>

ApplyEditsRequest(present, size, loads, json, hasEdits, edits, n) ==
  [route |-> "apply-edits",
   resumePdf |-> [present |-> present, size |-> size, loads |-> loads, pages |-> n],
   changeSetJson |-> json,
   changeSet |-> [hasAppliedEdits |-> hasEdits, appliedEdits |-> edits]]

ApplyEditsRequests ==
  {ApplyEditsRequest(TRUE, 1, TRUE, "ok", TRUE, es, n) : es \in EditLists, n \in PageCounts}
    \cup {ApplyEditsRequest(present, size, loads, json, hasEdits, OneEdit, 1) :
            present \in BOOLEAN, size \in {MAX_FILE_SIZE, MAX_FILE_SIZE + 1},
            loads \in BOOLEAN, json \in {"missing", "invalid", "ok"},
            hasEdits \in BOOLEAN}

\* edit-pdf: the request's JSON body.
Replacements ==
  {<<>>,
   <<[originalText |-> <<"a">>, newText |-> <<"c">>]>>,
   <<[originalText |-> <<>>, newText |-> <<"c">>]>>,
   <<[originalText |-> <<"a">>, newText |-> <<"c">>],
     [originalText |-> <<"B">>, newText |-> <<"c">>]>>}

EditPdfRequests ==
  {[route |-> "edit-pdf", pdfBase64 |-> b, loads |-> l, pages |-> n,
    hasReplacements |-> h, replacements |-> r] :
     b \in BOOLEAN, l \in BOOLEAN, n \in PageCounts, h \in BOOLEAN, r \in Replacements}

InitExport ==
  /\ request \in ApplyEditsRequests \cup EditPdfRequests
  /\ pc = "start"
  /\ response = NoResponse
  /\ cursor = 0 /\ pdfDoc = NoDoc /\ drawn = <<>> /\ warned = <<>>
  /\ extractedText = <<>> /\ ocrCalls = 0 /\ generateCalls = 0
  /\ ReplaceIdle /\ EditIdle /\ PageIdle
  /\ ServiceIdle

\* the checks of the apply-edits handler, in its order: the error it answers
\* with, or "ok".
ApplyEditsValidation(req) ==
  IF ~req.resumePdf.present \/ req.changeSetJson = "missing"
  THEN "Missing resumePdf or changeSet"
  ELSE IF req.resumePdf.size > MAX_FILE_SIZE THEN "PDF file exceeds 15MB limit"
  ELSE IF req.changeSetJson = "invalid" THEN "Invalid changeSet JSON"
  ELSE IF ~req.changeSet.hasAppliedEdits \/ Len(req.changeSet.appliedEdits) = 0
  THEN "No edits to apply"
  ELSE "ok"

ErrorResponse(status, message) ==
  [status |-> status, body |-> "error", error |-> message]

\* OutOfRange without the test for a negative index.
OutOfRangeAboveOnly(e, pageCount) == e.pageIndex >= pageCount

\* an edit the loop skips: its page index is out of range.
OutOfRange(e, pageCount) == e.pageIndex < 0 \/ e.pageIndex >= pageCount


\* the number the handler writes into the document's subject.
AppliedSubject(req) == Len(req.changeSet.appliedEdits)

ApplyEditsReject ==
  /\ pc = "start" /\ request.route = "apply-edits"
  /\ ApplyEditsValidation(request) # "ok"
  /\ response' = ErrorResponse(400, ApplyEditsValidation(request))
  /\ pc' = "done"
  /\ UNCHANGED <<serviceVars, request, exportVars, optimizeVars, replaceVars, editVars, pageVars>>

\* PDFDocument.load throws: the outer catch answers 500.
ApplyEditsLoadFails ==
  /\ pc = "start" /\ request.route = "apply-edits"
  /\ ApplyEditsValidation(request) = "ok"
  /\ ~request.resumePdf.loads
  /\ response' = ErrorResponse(500, "load")
  /\ pc' = "done"
  /\ UNCHANGED <<serviceVars, request, exportVars, optimizeVars, replaceVars, editVars, pageVars>>

ApplyEditsLoad ==
  /\ pc = "start" /\ request.route = "apply-edits"
  /\ ApplyEditsValidation(request) = "ok"
  /\ request.resumePdf.loads
  /\ pdfDoc' = [loaded |-> TRUE,
                pages |-> [i \in 1..request.resumePdf.pages |-> <<>>],
                subject |-> -1]
  /\ cursor' = 1
  /\ pc' = "loop"
  /\ UNCHANGED <<serviceVars, request, response, drawn, warned, optimizeVars, replaceVars,
                 editVars, pageVars>>

\* one pass of the loop for an edit whose page index is out of range
SkipEdit ==
  /\ pc = "loop" /\ cursor <= Len(request.changeSet.appliedEdits)
  /\ OutOfRange(request.changeSet.appliedEdits[cursor], Len(pdfDoc.pages))
  /\ warned' = Append(warned, cursor)
  /\ cursor' = cursor + 1
  /\ UNCHANGED <<serviceVars, httpVars, pdfDoc, drawn, optimizeVars, replaceVars, editVars, pageVars>>

\* one pass of the loop for an in-range edit
ApplyEditInRange ==
  /\ pc = "loop" /\ cursor <= Len(request.changeSet.appliedEdits)
  /\ ~OutOfRange(request.changeSet.appliedEdits[cursor], Len(pdfDoc.pages))
  /\ LET e == request.changeSet.appliedEdits[cursor]
         height == 792 * Scale
         y == height - e.bbox.y - e.bbox.height
     IN  pdfDoc' = [pdfDoc EXCEPT !.pages[e.pageIndex + 1] =
                      @ \o applyInPlaceEdit(e, y).ops]
  /\ drawn' = Append(drawn, cursor)
  /\ cursor' = cursor + 1
  /\ UNCHANGED <<serviceVars, httpVars, warned, optimizeVars, replaceVars, editVars, pageVars>>

\* after the loop: the metadata, the save and the response
ApplyEditsRespond ==
  /\ pc = "loop" /\ cursor > Len(request.changeSet.appliedEdits)
  /\ pdfDoc' = [pdfDoc EXCEPT !.subject = AppliedSubject(request)]
  /\ response' = [status |-> 200, body |-> "pdf"]
  /\ pc' = "done"
  /\ UNCHANGED <<serviceVars, request, cursor, drawn, warned, optimizeVars, replaceVars,
                 editVars, pageVars>>

\* edit-pdf: the text of a page, and the attempt to replace in its stream.
getPageTextContent == <<>>
replaceTextInPage == FALSE

\* the replacements the page loop of edit-pdf counts as made.
RECURSIVE ReplacementsMade(_, _, _)
ReplacementsMade(pagesLeft, replacements, k) ==
  IF pagesLeft = 0 THEN 0
  ELSE IF k > Len(replacements) THEN ReplacementsMade(pagesLeft - 1, replacements, 1)
  ELSE (IF IndexOf(getPageTextContent, replacements[k].originalText) # -1
           /\ replaceTextInPage
        THEN 1 ELSE 0)
         + ReplacementsMade(pagesLeft, replacements, k + 1)

\* the edit-pdf handler, whole
EditPdfPost ==
  /\ pc = "start" /\ request.route = "edit-pdf"
  /\ response' =
       IF ~request.pdfBase64 \/ ~request.hasReplacements
            \/ Len(request.replacements) = 0
       THEN ErrorResponse(400, "Missing pdfBase64 or replacements")
       ELSE IF ~request.loads THEN ErrorResponse(500, "Failed to edit PDF")
       ELSE LET made == ReplacementsMade(request.pages, request.replacements, 1)
            IN  [status |-> 200, body |-> "json", success |-> made # 0,
                 replacementsMade |-> made]
  /\ pc' = "done"
  /\ UNCHANGED <<serviceVars, request, exportVars, optimizeVars, replaceVars, editVars, pageVars>>

NextExport ==
  \/ ApplyEditsReject \/ ApplyEditsLoadFails \/ ApplyEditsLoad
  \/ SkipEdit \/ ApplyEditInRange \/ ApplyEditsRespond
  \/ EditPdfPost

SpecExport == InitExport /\ [][NextExport]_vars

\* ------------------------------------------------- the optimize route, run
OPTIMIZE_MAX_FILE_SIZE == 10 * 1024 * 1024
MIN_TEXT_LENGTH == 100
textFloor == 50

\* a text of n visible characters, with pad spaces before and after
Chars(n) == [i \in 1..n |-> "x"]
Padded(n, pad) == [i \in 1..pad |-> " "] \o Chars(n) \o [i \in 1..pad |-> " "]

TextLengths == {0, 10, 49, 50, 60, 99, 100, 120}
ParserOutcomes ==
  {[throws |-> TRUE, text |-> <<>>]}
    \cup {[throws |-> FALSE, text |-> Padded(n, pad)] : n \in TextLengths, pad \in {0, 1}}

\* what the OCR service answers: ParsedResults is missing or a list of results
ParsedResultLists ==
  {<<>>, <<Chars(24), Chars(24)>>, <<Chars(25), Chars(25)>>}
    \cup {<<Padded(n, pad)>> : n \in {0, 10, 49, 50, 120}, pad \in {0, 1}}
OcrOutcomes ==
  {[apiKey |-> FALSE, ok |-> TRUE, errored |-> FALSE, hasResults |-> TRUE,
    ParsedResults |-> <<>>],
   [apiKey |-> TRUE, ok |-> FALSE, errored |-> FALSE, hasResults |-> TRUE,
    ParsedResults |-> <<>>],
   [apiKey |-> TRUE, ok |-> TRUE, errored |-> TRUE, hasResults |-> TRUE,
    ParsedResults |-> <<>>],
   [apiKey |-> TRUE, ok |-> TRUE, errored |-> FALSE, hasResults |-> FALSE,
    ParsedResults |-> <<>>]}
    \cup {[apiKey |-> TRUE, ok |-> TRUE, errored |-> FALSE, hasResults |-> TRUE,
           ParsedResults |-> r] : r \in ParsedResultLists}

OptimizeRequest(present, size, type, jd, parse, ocr, generates) ==
  [route |-> "optimize",
   resumePdf |-> [present |-> present, size |-> size, type |-> type],
   jobDescription |-> jd, parse |-> parse, ocr |-> ocr, generates |-> generates]

OptimizeRequests ==
  {OptimizeRequest(TRUE, 1, "application/pdf", TRUE, parse, ocr, g) :
     parse \in ParserOutcomes, ocr \in OcrOutcomes, g \in BOOLEAN}
    \cup {OptimizeRequest(present, size, type, jd,
                          [throws |-> FALSE, text |-> Chars(120)],
                          [apiKey |-> FALSE, ok |-> TRUE, errored |-> FALSE,
                           hasResults |-> TRUE, ParsedResults |-> <<>>], TRUE) :
            present \in BOOLEAN,
            size \in {OPTIMIZE_MAX_FILE_SIZE, OPTIMIZE_MAX_FILE_SIZE + 1},
            type \in {"application/pdf", "text/plain"}, jd \in BOOLEAN}

InitOptimize ==
  /\ request \in OptimizeRequests
  /\ pc = "start"
  /\ response = NoResponse
  /\ cursor = 0 /\ pdfDoc = NoDoc /\ drawn = <<>> /\ warned = <<>>
  /\ extractedText = <<>> /\ ocrCalls = 0 /\ generateCalls = 0
  /\ ReplaceIdle /\ EditIdle /\ PageIdle
  /\ ServiceIdle

OptimizeValidation(req) ==
  IF ~req.resumePdf.present \/ ~req.jobDescription
  THEN "Missing resumePdf or jobDescription"
  ELSE IF req.resumePdf.size > OPTIMIZE_MAX_FILE_SIZE THEN "PDF file exceeds 10MB limit"
  ELSE IF req.resumePdf.type # "application/pdf" THEN "File must be a PDF"
  ELSE "ok"

\* array.join("\n")
RECURSIVE JoinLines(_)
JoinLines(texts) ==
  IF Len(texts) = 0 THEN <<>>
  ELSE IF Len(texts) = 1 THEN texts[1]
  ELSE texts[1] \o <<"\n">> \o JoinLines(Tail(texts))

\* performOCR: the text, or null
performOCR(ocr) ==
  IF ~ocr.apiKey THEN [null |-> TRUE, text |-> <<>>]
  ELSE IF ~ocr.ok \/ ocr.errored THEN [null |-> TRUE, text |-> <<>>]
  ELSE IF ~ocr.hasResults THEN [null |-> TRUE, text |-> <<>>]
  ELSE LET text == JoinLines(ocr.ParsedResults)
       IN  IF Len(text) = 0 THEN [null |-> TRUE, text |-> <<>>]
           ELSE [null |-> FALSE, text |-> text]

\* the extracted text after the fallback: a non-empty OCR text takes the
\* place of the parser's text
AfterFallback(text, ocrText) == IF ~ocrText.null THEN ocrText.text ELSE text

\* the test that sends the handler to the OCR fallback
NeedsOCR(text) == Len(Trim(text)) < MIN_TEXT_LENGTH

OptimizeReject ==
  /\ pc = "start" /\ request.route = "optimize"
  /\ OptimizeValidation(request) # "ok"
  /\ response' = ErrorResponse(400, OptimizeValidation(request))
  /\ pc' = "done"
  /\ UNCHANGED <<serviceVars, request, exportVars, optimizeVars, replaceVars, editVars, pageVars>>

\* pdf(pdfBuffer): the parser's text, or "" when it throws
OptimizeParse ==
  /\ pc = "start" /\ request.route = "optimize"
  /\ OptimizeValidation(request) = "ok"
  /\ extractedText' = (IF request.parse.throws THEN <<>> ELSE request.parse.text)
  /\ pc' = "text"
  /\ UNCHANGED <<serviceVars, request, response, ocrCalls, generateCalls, exportVars, replaceVars,
                 editVars, pageVars>>

OptimizeOCR ==
  /\ pc = "text" /\ request.route = "optimize"
  /\ NeedsOCR(extractedText)
  /\ ocrCalls' = ocrCalls + 1
  /\ extractedText' = AfterFallback(extractedText, performOCR(request.ocr))
  /\ pc' = "floor"
  /\ UNCHANGED <<serviceVars, request, response, generateCalls, exportVars, replaceVars, editVars,
                 pageVars>>

OptimizeNoOCR ==
  /\ pc = "text" /\ request.route = "optimize"
  /\ ~NeedsOCR(extractedText)
  /\ pc' = "floor"
  /\ UNCHANGED <<serviceVars, request, response, optimizeVars, exportVars, replaceVars, editVars,
                 pageVars>>

OptimizeInsufficient ==
  /\ pc = "floor" /\ request.route = "optimize"
  /\ Len(Trim(extractedText)) < textFloor
  /\ response' = ErrorResponse(400, "Could not extract sufficient text from PDF")
  /\ pc' = "done"
  /\ UNCHANGED <<serviceVars, request, optimizeVars, exportVars, replaceVars, editVars, pageVars>>

\* generateSuggestions and the response; a throw is answered with 500
OptimizeGenerate ==
  /\ pc = "floor" /\ request.route = "optimize"
  /\ Len(Trim(extractedText)) >= textFloor
  /\ generateCalls' = generateCalls + 1
  /\ response' = (IF request.generates THEN [status |-> 200, body |-> "json"]
                  ELSE ErrorResponse(500, "generateSuggestions"))
  /\ pc' = "done"
  /\ UNCHANGED <<serviceVars, request, extractedText, ocrCalls, exportVars, replaceVars, editVars,
                 pageVars>>

NextOptimize ==
  \/ OptimizeReject \/ OptimizeParse \/ OptimizeOCR \/ OptimizeNoOCR
  \/ OptimizeInsufficient \/ OptimizeGenerate

SpecOptimize == InitOptimize /\ [][NextOptimize]_vars

\* ------------------------------------------------- the page's handlers, run
\* The suggestions generateSuggestions returns: the ids are the model's own
\* (or "suggestion-<n>" where one is missing) and are not made unique.
HtmlTokens == {<<"a">>, <<"B">>, <<"<", "i", ">">>}
HtmlDocs == TokenStrings(HtmlTokens, MaxHtmlTokens)

GeneratedSuggestions ==
  {[id |-> i, section |-> "experience", originalSnippet |-> o, proposedText |-> n,
    reason |-> "keyword", riskLevel |-> "low", status |-> "pending",
    hasAppliedText |-> FALSE, appliedText |-> <<>>] :
     i \in {"suggestion-1", "suggestion-2"},
     o \in {<<"a", "b">>, <<"a">>},
     n \in {<<"c">>, <<"a", " ", "c">>}}

SuggestionLists == UNION {[1..k -> GeneratedSuggestions] : k \in 0..MaxSuggestions}

\* the state once handleUploadSubmit has succeeded
InitPage ==
  /\ version \in {"html", "pdf"}
  /\ suggestions \in SuggestionLists
  /\ step = (IF version = "html" THEN "editing" ELSE "review")
  /\ htmlContent \in (IF version = "html" THEN HtmlDocs ELSE {<<>>})
  /\ appliedEdits = <<>>
  /\ activeMappingSuggestion = NoSuggestion
  /\ lastCall = NoCall
  /\ ReplaceIdle /\ EditIdle /\ RouteIdle
  /\ ServiceIdle

\* prev.map((s) => (s.id === id ? { ...s, status } : s))
SetStatus(prev, id, status) ==
  [k \in 1..Len(prev) |->
     IF prev[k].id = id THEN [prev[k] EXCEPT !.status = status] ELSE prev[k]]

\* prev.map((s) => (s.id === id ? { ...s, status: "accepted", appliedText } : s))
SetAccepted(prev, id, replacement) ==
  [k \in 1..Len(prev) |->
     IF prev[k].id = id
     THEN [prev[k] EXCEPT !.status = "accepted", !.hasAppliedText = TRUE,
                          !.appliedText = replacement]
     ELSE prev[k]]

\* suggestions.find((s) => s.id === id): the position of the first one
FindSuggestion(list, id) ==
  LET hits == {k \in 1..Len(list) : list[k].id = id}
  IN  CHOOSE k \in hits : \A j \in hits : k <= j

\* canFindTextInHtml of the suggestions panel: what enables its Apply button
canFindTextInHtml(h, searchText) ==
  LET regex == createFlexibleHtmlRegex(searchText)
  IN  IF regex = NullRegex THEN FALSE
      ELSE \/ RegexTest(h, regex)
           \/ IndexOf(ToLower(normalizeText(stripHtmlTags(h))),
                      ToLower(normalizeText(searchText))) # -1

canBeApplied(h, suggestion) ==
  Len(h) = 0 \/ suggestion.status # "pending"
    \/ canFindTextInHtml(h, suggestion.originalSnippet)

\* the editor panel marks a pending suggestion whose pattern matches
HasMarker(h, suggestion) ==
  /\ suggestion.status = "pending"
  /\ createFlexibleHtmlRegex(suggestion.originalSnippet) # NullRegex
  /\ RegexTest(h, createFlexibleHtmlRegex(suggestion.originalSnippet))

mappingVars == <<appliedEdits, activeMappingSuggestion>>
offPage == <<replaceVars, editVars, routeVars>>

\* HTML workflow: the Reject and Restore buttons of a suggestion card
handleUpdateSuggestionStatus ==
  /\ version = "html" /\ step = "editing"
  /\ \E k \in 1..Len(suggestions), status \in {"rejected", "pending"} :
       /\ \/ status = "rejected" /\ suggestions[k].status = "pending"
          \/ status = "pending" /\ suggestions[k].status = "rejected"
       /\ suggestions' = SetStatus(suggestions, suggestions[k].id, status)
       /\ lastCall' = [name |-> "handleUpdateSuggestionStatus", id |-> suggestions[k].id]
  /\ UNCHANGED <<serviceVars, version, step, htmlContent, mappingVars, offPage>>

\* HTML workflow: Accept in the popup of a marked suggestion
handleSuggestionAccept ==
  /\ version = "html" /\ step = "editing"
  /\ \E k \in 1..Len(suggestions), customText \in {<<>>, <<"c">>} :
       /\ HasMarker(htmlContent, suggestions[k])
       /\ LET id == suggestions[k].id
              suggestion == suggestions[FindSuggestion(suggestions, id)]
              replacement == IF Len(customText) > 0 THEN customText
                             ELSE suggestion.proposedText
          IN  /\ htmlContent' =
                   replaceTextFuzzy(htmlContent, suggestion.originalSnippet, replacement).out
              /\ suggestions' = SetAccepted(suggestions, id, replacement)
              /\ lastCall' = [name |-> "handleSuggestionAccept", id |-> id]
  /\ UNCHANGED <<serviceVars, version, step, mappingVars, offPage>>

\* HTML workflow: Reject in the popup of a marked suggestion
handleSuggestionReject ==
  /\ version = "html" /\ step = "editing"
  /\ \E k \in 1..Len(suggestions) :
       /\ HasMarker(htmlContent, suggestions[k])
       /\ suggestions' = SetStatus(suggestions, suggestions[k].id, "rejected")
       /\ lastCall' = [name |-> "handleSuggestionReject", id |-> suggestions[k].id]
  /\ UNCHANGED <<serviceVars, version, step, htmlContent, mappingVars, offPage>>

\* HTML workflow: the Apply button of a pending suggestion card
handleApplySuggestion ==
  /\ version = "html" /\ step = "editing"
  /\ \E k \in 1..Len(suggestions) :
       /\ suggestions[k].status = "pending"
       /\ canBeApplied(htmlContent, suggestions[k])
       /\ LET id == suggestions[k].id
              suggestion == suggestions[FindSuggestion(suggestions, id)]
          IN  /\ htmlContent' =
                   replaceTextFuzzy(htmlContent, suggestion.originalSnippet,
                                    suggestion.proposedText).out
              /\ suggestions' = SetStatus(suggestions, id, "accepted")
              /\ lastCall' = [name |-> "handleApplySuggestion", id |-> id]
  /\ UNCHANGED <<serviceVars, version, step, mappingVars, offPage>>

handleStartOver ==
  /\ version = "html" /\ step = "editing"
  /\ step' = "upload"
  /\ suggestions' = <<>>
  /\ htmlContent' = <<>>
  /\ lastCall' = [name |-> "handleStartOver"]
  /\ UNCHANGED <<serviceVars, version, mappingVars, offPage>>

\* UpdateOrAddEdit that always adds.
AlwaysAddEdit(prev, e) == Append(prev, e)

\* UpdateOrAddEdit that updates an existing edit but never adds one.
UpdateEditOnly(prev, e) ==
  [k \in 1..Len(prev) |-> IF prev[k].suggestionId = e.suggestionId THEN e ELSE prev[k]]

\* setAppliedEdits of handleMappingComplete: update or add the edit
UpdateOrAddEdit(prev, e) ==
  LET hits == {k \in 1..Len(prev) : prev[k].suggestionId = e.suggestionId}
  IN  IF hits # {}
      THEN [prev EXCEPT ![CHOOSE k \in hits : \A j \in hits : k <= j] = e]
      ELSE Append(prev, e)


\* prev.filter((e) => e.suggestionId !== id)
RemoveEdits(prev, id) == SelectSeq(prev, LAMBDA e : e.suggestionId # id)

\* PDF-mapping workflow: Accept, Reject and Restore of a suggestion card
handleUpdateSuggestionStatusMapping ==
  /\ version = "pdf" /\ step = "review"
  /\ \E k \in 1..Len(suggestions), status \in {"accepted", "rejected", "pending"} :
       /\ \/ status = "accepted" /\ suggestions[k].status = "pending"
          \/ status = "rejected" /\ suggestions[k].status \in {"pending", "accepted"}
          \/ status = "pending" /\ suggestions[k].status = "rejected"
       /\ suggestions' = SetStatus(suggestions, suggestions[k].id, status)
       /\ appliedEdits' = (IF status = "rejected"
                           THEN RemoveEdits(appliedEdits, suggestions[k].id)
                           ELSE appliedEdits)
       /\ lastCall' = [name |-> "handleUpdateSuggestionStatus", id |-> suggestions[k].id]
  /\ UNCHANGED <<serviceVars, version, step, htmlContent, activeMappingSuggestion, offPage>>

\* PDF-mapping workflow: Map to PDF and Re-map location of a suggestion card
handleSelectForMapping ==
  /\ version = "pdf" /\ step = "review"
  /\ \E k \in 1..Len(suggestions) :
       /\ suggestions[k].status \in {"accepted", "mapped"}
       /\ activeMappingSuggestion' = suggestions[k]
       /\ lastCall' = [name |-> "handleSelectForMapping", id |-> suggestions[k].id]
  /\ UNCHANGED <<serviceVars, version, step, suggestions, htmlContent, appliedEdits, offPage>>

\* PDF-mapping workflow: a click on a text span or a drawn rectangle while a
\* suggestion is being mapped
handleMappingComplete ==
  /\ version = "pdf" /\ step = "review"
  /\ activeMappingSuggestion # NoSuggestion
  /\ \E pageIndex \in {0, 1},
        original \in {activeMappingSuggestion.originalSnippet, <<"a", "B">>} :
       LET e == [suggestionId |-> activeMappingSuggestion.id,
                 pageIndex |-> pageIndex, bbox |-> ExportBox, mode |-> "replace",
                 originalText |-> original,
                 newText |-> activeMappingSuggestion.proposedText]
       IN  /\ appliedEdits' = UpdateOrAddEdit(appliedEdits, e)
           /\ suggestions' = SetStatus(suggestions, e.suggestionId, "mapped")
           /\ lastCall' = [name |-> "handleMappingComplete", id |-> e.suggestionId,
                           edit |-> e]
  /\ activeMappingSuggestion' = NoSuggestion
  /\ UNCHANGED <<serviceVars, version, step, htmlContent, offPage>>

handleCancelMapping ==
  /\ version = "pdf" /\ step = "review"
  /\ activeMappingSuggestion # NoSuggestion
  /\ activeMappingSuggestion' = NoSuggestion
  /\ lastCall' = [name |-> "handleCancelMapping"]
  /\ UNCHANGED <<serviceVars, version, step, suggestions, htmlContent, appliedEdits, offPage>>

handleStartOverMapping ==
  /\ version = "pdf" /\ step = "review"
  /\ step' = "upload"
  /\ suggestions' = <<>>
  /\ appliedEdits' = <<>>
  /\ activeMappingSuggestion' = NoSuggestion
  /\ lastCall' = [name |-> "handleStartOver"]
  /\ UNCHANGED <<serviceVars, version, htmlContent, offPage>>

NextPage ==
  \/ handleUpdateSuggestionStatus \/ handleSuggestionAccept \/ handleSuggestionReject
  \/ handleApplySuggestion \/ handleStartOver
  \/ handleUpdateSuggestionStatusMapping \/ handleSelectForMapping
  \/ handleMappingComplete \/ handleCancelMapping \/ handleStartOverMapping

SpecPage == InitPage /\ [][NextPage]_vars

\* ------------------------------------------------- claims on the edit applier
EditDone == applied /\ page.layout # "none"
WordCount == Len(SplitOnSpace(edit.newText, 1, <<>>))
EstimatedSize == Min((edit.bbox.height * 85) \div 100, 12 * Scale)
TextOps == SelectSeq(page.ops, LAMBDA o : o.op = "text")
RectOps == SelectSeq(page.ops, LAMBDA o : o.op = "rect")
\* the measured width of t at size is at most w points
Measures(t, size, w) == GlyphSum(t) * size <= 1000 * w * Scale

\* C7, as stated: for every box of height H > 0 and every text, the chosen
\* font size lies in [6, min(0.85 H, 12)].
C7_Stated ==
  (EditDone /\ edit.bbox.height > 0)
    => (6 * Scale <= page.fontSize /\ page.fontSize <= EstimatedSize)

\* C7, amended: for every box of height H > 0 the chosen font size lies in
\* [6, max(min(0.85 H, 12), F)], F being the floor of the text's branch: 6 for
\* a text of at most 3 words, 8 for a text of more than 3 words.
C7_FontSizeRange ==
  (EditDone /\ edit.bbox.height > 0)
    => /\ 6 * Scale <= page.fontSize
       /\ page.fontSize
            <= Max(EstimatedSize, IF WordCount > 3 THEN 8 * Scale ELSE 6 * Scale)

C7_Witness ==
  /\ EditDone /\ edit.bbox.height > 0 /\ WordCount > 3
  /\ page.fontSize = 8 * Scale /\ EstimatedSize < 8 * Scale

\* C8: for a text of at most 3 words the chosen size either makes the whole
\* text measure at most bbox.width or is exactly the floor 6; and a text drawn
\* by the single-line branch measures at most bbox.width at the chosen size.
C8_FitsOrFloor ==
  /\ (EditDone /\ WordCount <= 3)
       => \/ GlyphSum(edit.newText) * page.fontSize <= 1000 * edit.bbox.width
          \/ page.fontSize = 6 * Scale
  /\ (EditDone /\ page.layout = "single")
       => /\ Len(TextOps) = 1
          /\ TextOps[1].text = edit.newText
          /\ GlyphSum(TextOps[1].text) * TextOps[1].size <= 1000 * edit.bbox.width

C8_Witness ==
  /\ EditDone /\ WordCount <= 3 /\ Len(edit.newText) > 0
  /\ page.fontSize > 6 * Scale /\ page.fontSize < EstimatedSize
  /\ page.layout = "single"

Scenario3 ==
  /\ EditDone
  /\ edit.bbox = [x |-> 100 * Scale, y |-> 200 * Scale,
                  width |-> 120 * Scale, height |-> 14 * Scale]
  /\ edit.newText = SeniorSoftwareEngineer

\* C9, as stated: scenario 3 draws the text wrapped into at least 2 lines,
\* each measuring at most 120.
C9_Stated ==
  Scenario3
    => /\ Len(TextOps) >= 2
       /\ \A k \in 1..Len(TextOps) : Measures(TextOps[k].text, TextOps[k].size, 120)

\* C9, amended: scenario 3 draws the whole text as one single line, not
\* wrapped, at the font size 10.4 reached by shrinking from 11.9, and that
\* line measures at most 120.
C9_SingleLine ==
  Scenario3
    => /\ page.layout = "single"
       /\ Len(TextOps) = 1
       /\ TextOps[1].text = SeniorSoftwareEngineer
       /\ 10 * TextOps[1].size = 104 * Scale
       /\ Measures(TextOps[1].text, TextOps[1].size, 120)

C9_Witness == Scenario3 /\ Len(TextOps) = 1 /\ page.fontSize < EstimatedSize

Malformed ==
  edit.bbox.width <= 0 \/ edit.bbox.height <= 0 \/ Len(edit.newText) = 0

\* C10: for a box of width <= 0 or height <= 0, or an empty newText, nothing
\* visible is drawn: no cover rectangle of positive area and no non-empty text.
C10_NothingDrawn ==
  (EditDone /\ Malformed)
    => /\ \A k \in 1..Len(RectOps) : ~(RectOps[k].width > 0 /\ RectOps[k].height > 0)
       /\ \A k \in 1..Len(TextOps) : Len(TextOps[k].text) = 0

\* --------------------------------------------- claims on the snippet replacer
FlexRegex == createFlexibleHtmlRegex(originalText)
Located1 == FlexRegex # NullRegex /\ RegexTest(html, FlexRegex)
Located2 == findTextInHtml(html, originalText).found
Located3 == RegexTest(html, SimpleRegex(originalText))
Located4 == IndexOf(html, originalText) # -1

\* C1: replaceTextFuzzy returns a document for every input; the method it
\* uses is the first of flexible regex, plain-text locator, loose regex and
\* literal substring that locates the snippet, its result is that method's
\* result, and when no method locates the snippet the result is the input
\* document, character for character.
C1_FirstStrategy ==
  (call = "replace")
    => /\ ret1.method = (IF Located1 THEN 1 ELSE IF Located2 THEN 2
                         ELSE IF Located3 THEN 3 ELSE 4)
       /\ ret1.method = 1 => ret1.out = ReplaceRegex(html, FlexRegex, newText)
       /\ ret1.method = 2 =>
            LET f == findTextInHtml(html, originalText)
            IN  ret1.out = Slice(html, 0, f.start) \o newText
                             \o Slice(html, f.end, Len(html))
       /\ ret1.method = 3 =>
            ret1.out = ReplaceRegex(html, SimpleRegex(originalText), newText)
       /\ ret1.method = 4 => ret1.out = ReplaceString(html, originalText, newText)
       /\ ~(Located1 \/ Located2 \/ Located3 \/ Located4) => ret1.out = html

C1_Witness ==
  /\ call = "replace" /\ originalText = Mangaed
  /\ ~(Located1 \/ Located2 \/ Located3 \/ Located4)
  /\ ret1.out = html

\* C2: calling replaceTextFuzzy again with the same snippet and replacement
\* on its own output returns that output unchanged.
C2_Idempotent == (call = "again") => ret2 = ret1.out

\* the number of places at which the phrase occurs in the plain text of doc,
\* letter case and the amount of whitespace aside.
PlainCount(doc, phrase) ==
  LET plain == ToLower(normalizeText(stripHtmlTags(doc)))
      p == ToLower(normalizeText(phrase))
  IN  Cardinality({i \in 1..Len(plain) : StartsWithAt(plain, i, p)})

\* C3: when the snippet occurs exactly once as plain text in the document and
\* the replacement exactly once in the result, replacing back returns the
\* original document, character for character.
C3_RoundTrip ==
  (/\ call = "back"
   /\ Len(normalizeText(originalText)) > 0 /\ Len(normalizeText(newText)) > 0
   /\ PlainCount(html, originalText) = 1
   /\ PlainCount(ret1.out, newText) = 1)
    => ret2 = html

\* A separator of an occurrence: whitespace and/or one <br> tag, not empty.
AllSpace(t) == \A k \in 1..Len(t) : IsSpace(t[k])
IsBrTag(t) ==
  /\ Len(t) >= 4
  /\ t[1] = "<" /\ Lower(t[2]) = "b" /\ Lower(t[3]) = "r" /\ t[Len(t)] = ">"
  /\ \/ AllSpace(SubSeq(t, 4, Len(t) - 1))
     \/ t[Len(t) - 1] = "/" /\ AllSpace(SubSeq(t, 4, Len(t) - 2))
IsSeparator(t) ==
  /\ Len(t) > 0
  /\ \/ AllSpace(t)
     \/ \E a \in 1..Len(t), b \in 1..Len(t) :
          /\ a <= b
          /\ AllSpace(SubSeq(t, 1, a - 1))
          /\ IsBrTag(SubSeq(t, a, b))
          /\ AllSpace(SubSeq(t, b + 1, Len(t)))

\* the ends (exclusive) of the occurrences of words k.. that start at i.
RECURSIVE OccurrenceEnds(_, _, _, _)
OccurrenceEnds(doc, i, words, k) ==
  IF ~StartsWithAtCI(doc, i, words[k]) THEN {}
  ELSE LET e == i + Len(words[k])
       IN  IF k = Len(words) THEN {e}
           ELSE UNION {OccurrenceEnds(doc, j, words, k + 1) :
                         j \in {j \in (e + 1)..Len(doc) :
                                  IsSeparator(SubSeq(doc, e, j - 1))}}

Occurrences(doc, words) ==
  {<<i, j>> : i \in 1..Len(doc), j \in 1..(Len(doc) + 1)}
    \cap UNION {{<<i, j>> : j \in OccurrenceEnds(doc, i, words, 1)} : i \in 1..Len(doc)}

IsNormalizedPhrase(p) == Len(p) > 0 /\ normalizeText(p) = p
ReplacedSpans == LET ms == AllMatches(html, FlexRegex, 1) IN {ms[k] : k \in 1..Len(ms)}

\* C4: when the document contains the words of the normalized phrase in
\* order, separated by whitespace and/or one <br> tag, in any letter case, the
\* flexible pattern matches the document and replaceTextFuzzy replaces that
\* occurrence (the leftmost one, when there are several).
C4_ReplacesOccurrence ==
  LET occ == Occurrences(html, SplitSpace(originalText))
  IN  (call = "replace" /\ IsNormalizedPhrase(originalText) /\ occ # {})
        => /\ Located1
           /\ ret1.method = 1
           /\ \E o \in occ :
                /\ \A o2 \in occ : o[1] <= o2[1]
                /\ o \in ReplacedSpans

\* C5: when the snippet occurs in the plain text of the document but, a tag
\* interrupting it, not verbatim in the document (in any letter case),
\* findTextInHtml returns a span of the document whose visible characters are
\* exactly those of the snippet.
C5_ExactSpan ==
  (/\ call = "locate"
   /\ Len(normalizeText(originalText)) > 0
   /\ PlainCount(html, originalText) >= 1
   /\ IndexOf(ToLower(html), ToLower(originalText)) = -1
   /\ \E i \in 1..Len(html) : TagLenAt(html, i) > 0)
    => /\ located.found
       /\ 0 <= located.start /\ located.start < located.end
       /\ located.end <= Len(html)
       /\ ToLower(normalizeText(stripHtmlTags(Slice(html, located.start, located.end))))
            = ToLower(normalizeText(originalText))

\* C6: an empty or whitespace-only snippet never matches: no pattern is built
\* for it and replaceTextFuzzy returns the document unchanged.
C6_BlankNeverMatches ==
  (call = "replace" /\ AllSpace(originalText))
    => /\ FlexRegex = NullRegex
       /\ ret1.out = html

\* ------------------------------------------------ claims on the export routes
ChangeSetEdits == request.changeSet.appliedEdits
InApplyEdits == request.route = "apply-edits" /\ pdfDoc.loaded

\* the positions up to k of the edits whose page index is a page of the document
ValidPositions(k) ==
  SelectSeq([i \in 1..k |-> i],
            LAMBDA i : /\ ChangeSetEdits[i].pageIndex >= 0
                       /\ ChangeSetEdits[i].pageIndex < request.resumePdf.pages)
InvalidPositions(k) ==
  SelectSeq([i \in 1..k |-> i],
            LAMBDA i : \/ ChangeSetEdits[i].pageIndex < 0
                       \/ ChangeSetEdits[i].pageIndex >= request.resumePdf.pages)

\* what the edits at the given positions draw on page p (0-based), in order
RECURSIVE OpsOnPage(_, _)
OpsOnPage(positions, p) ==
  IF Len(positions) = 0 THEN <<>>
  ELSE LET e == ChangeSetEdits[Head(positions)]
       IN  (IF e.pageIndex = p
            THEN applyInPlaceEdit(e, 792 * Scale - e.bbox.y - e.bbox.height).ops
            ELSE <<>>) \o OpsOnPage(Tail(positions), p)

\* C11: an edit whose pageIndex is negative or >= the page count is skipped
\* with a warning and the loop goes on: at every point of the loop the edits
\* applied are exactly the in-range edits met so far, in input order, and the
\* request ends with status 200 and the PDF drawn on by every in-range edit.
C11_SkipContinues ==
  InApplyEdits
    => /\ pc = "loop"
            => /\ drawn = ValidPositions(cursor - 1)
               /\ warned = InvalidPositions(cursor - 1)
               /\ ENABLED (SkipEdit \/ ApplyEditInRange \/ ApplyEditsRespond)
       /\ pc = "done"
            => /\ response.status = 200 /\ response.body = "pdf"
               /\ drawn = ValidPositions(Len(ChangeSetEdits))
               /\ warned = InvalidPositions(Len(ChangeSetEdits))
               /\ \A p \in 1..Len(pdfDoc.pages) :
                    pdfDoc.pages[p] = OpsOnPage(ValidPositions(Len(ChangeSetEdits)), p - 1)

C11_Witness ==
  /\ InApplyEdits /\ pc = "done" /\ response.status = 200
  /\ Len(ChangeSetEdits) = 3
  /\ ChangeSetEdits[1].pageIndex = -1 /\ ChangeSetEdits[2].pageIndex = 2
  /\ ChangeSetEdits[3].pageIndex = 5
  /\ warned = <<1, 3>> /\ drawn = <<2>>
  /\ Len(pdfDoc.pages[3]) = 2

\* C12: the N of "Applied N optimizations" that the apply-edits handler writes
\* equals the number of edits drawn: skipped edits are not counted.
C12_CountsDrawn ==
  (InApplyEdits /\ pc = "done" /\ response.status = 200)
    => pdfDoc.subject = Len(drawn)

\* a well-formed export request none of whose edits can be placed
NothingPlaceable ==
  \/ /\ request.route = "apply-edits"
     /\ request.resumePdf.present /\ request.resumePdf.size <= MAX_FILE_SIZE
     /\ request.resumePdf.loads
     /\ request.changeSetJson = "ok" /\ request.changeSet.hasAppliedEdits
     /\ ValidPositions(Len(ChangeSetEdits)) = <<>>
  \/ /\ request.route = "edit-pdf"
     /\ request.pdfBase64 /\ request.loads /\ request.hasReplacements

\* C13: an export request for which no edit can be placed (empty edit list,
\* every edit out of range, no replacement matched) is answered with status
\* 200, a document and an applied count of zero, never with an error status.
C13_ZeroStillSucceeds ==
  (pc = "done" /\ NothingPlaceable)
    => /\ response.status = 200
       /\ request.route = "apply-edits" => pdfDoc.subject = 0
       /\ request.route = "edit-pdf" => response.replacementsMade = 0

\* ------------------------------------------------ claims on the page's handlers
AtMostOneEditPerSuggestion ==
  \A i, j \in 1..Len(appliedEdits) :
    i # j => appliedEdits[i].suggestionId # appliedEdits[j].suggestionId

\* a handleMappingComplete step for a suggestion that has an edit puts the new
\* edit at that edit's position and leaves the other edits as they are
RemapsInPlace ==
  (/\ lastCall'.name = "handleMappingComplete"
   /\ \E k \in 1..Len(appliedEdits) : appliedEdits[k].suggestionId = lastCall'.id)
    => /\ Len(appliedEdits') = Len(appliedEdits)
       /\ \A k \in 1..Len(appliedEdits) :
            appliedEdits'[k] = (IF appliedEdits[k].suggestionId = lastCall'.id
                                THEN lastCall'.edit ELSE appliedEdits[k])

\* C14: in the PDF-mapping workflow appliedEdits holds at most one AppliedEdit
\* per suggestionId after any sequence of mapping, re-mapping, accept, reject
\* and restore; mapping a suggestion that already has an edit replaces that
\* edit at its list position and leaves every other edit unchanged.
C14_OneEditPerSuggestion ==
  /\ [](version = "pdf" => AtMostOneEditPerSuggestion)
  /\ [][RemapsInPlace]_vars

C14_Witness ==
  /\ version = "pdf" /\ Len(appliedEdits) = 2
  /\ lastCall.name = "handleMappingComplete"
  /\ appliedEdits[1] = lastCall.edit
  /\ appliedEdits[1].pageIndex = 1 /\ appliedEdits[2].pageIndex = 0

\* some strategy of replaceTextFuzzy locates the snippet s in the document h
LocatedBy(h, s) ==
  \/ /\ createFlexibleHtmlRegex(s) # NullRegex
     /\ RegexTest(h, createFlexibleHtmlRegex(s))
  \/ findTextInHtml(h, s).found
  \/ RegexTest(h, SimpleRegex(s))
  \/ IndexOf(h, s) # -1

AcceptsUnmatched ==
  /\ version = "html"
  /\ lastCall'.name \in {"handleSuggestionAccept", "handleApplySuggestion"}
  /\ ~LocatedBy(htmlContent,
                suggestions[FindSuggestion(suggestions, lastCall'.id)].originalSnippet)
  /\ htmlContent' = htmlContent

\* C15: in the HTML workflow, accepting or applying a suggestion whose
\* originalSnippet no strategy locates (the document comes back unchanged)
\* does not record the suggestion as applied: its status does not become
\* "accepted".
C15_UnmatchedNotAccepted ==
  [][AcceptsUnmatched
       => \A k \in 1..Len(suggestions) :
            suggestions[k].id = lastCall'.id => suggestions'[k].status # "accepted"]_vars

StatusChanged == {k \in 1..Len(suggestions) : suggestions'[k].status # suggestions[k].status}

\* C16: every handler but Start Over keeps the length and order of the
\* suggestion list and the fields id, section, originalSnippet, proposedText,
\* reason and riskLevel of every suggestion, and changes the status of at most
\* one suggestion, the one whose id it was given.
C16_OnlyStatusOfOne ==
  [][lastCall'.name # "handleStartOver"
       => /\ Len(suggestions') = Len(suggestions)
          /\ \A k \in 1..Len(suggestions) :
               /\ suggestions'[k].id = suggestions[k].id
               /\ suggestions'[k].section = suggestions[k].section
               /\ suggestions'[k].originalSnippet = suggestions[k].originalSnippet
               /\ suggestions'[k].proposedText = suggestions[k].proposedText
               /\ suggestions'[k].reason = suggestions[k].reason
               /\ suggestions'[k].riskLevel = suggestions[k].riskLevel
          /\ \A k \in StatusChanged : suggestions[k].id = lastCall'.id
          /\ Cardinality(StatusChanged) <= 1]_vars

\* ------------------------------------------------ claims on the optimize route
OptimizePassed == request.route = "optimize" /\ OptimizeValidation(request) = "ok"
ParserText == IF request.parse.throws THEN <<>> ELSE request.parse.text
RejectedForText == response.status = 400 /\ generateCalls = 0

\* C17: the OCR fallback is invoked exactly when the parser's text
\* has fewer than 100 trimmed characters; the request is rejected with status
\* 400, generateSuggestions never called, exactly when the text held after the
\* fallback has fewer than 50 trimmed characters; and an input whose parser
\* text has at least 50 trimmed characters is never rejected for its text.
C17_FallbackAndFloor ==
  OptimizePassed
    => /\ pc \in {"floor", "done"}
            => /\ ocrCalls <= 1
               /\ ocrCalls = 1 <=> Len(Trim(ParserText)) < 100
       /\ pc = "done"
            => /\ RejectedForText <=> Len(Trim(extractedText)) < 50
               /\ Len(Trim(ParserText)) >= 50 => ~RejectedForText

\* ----------------------------------------- further claims on the snippet replacer
\* C18: the flexible-regex strategy acts on the first match only: when the
\* pattern matches the document, the result is the document with the leftmost
\* match replaced by the replacement text and every character outside that
\* span, other matches included, unchanged.
C18_FirstMatchOnly ==
  (call = "replace" /\ Located1)
    => LET first == AllMatches(html, FlexRegex, 1)[1]
           matched == Slice(html, first[1] - 1, first[2] - 1)
       IN  ret1.out = Slice(html, 0, first[1] - 1)
                        \o GetSubstitution(matched, html, first[1] - 1, newText, 1)
                        \o Slice(html, first[2] - 1, Len(html))

\* the plain-text projection the word scan runs on, and the position index
PlainProjection == normalizeText(stripHtmlTags(html))
PositionIndex == BuildPlainToHtml(DecodeEntities(html), 0, FALSE, <<>>)

\* the character of the document at offset o is what shows as c in the plain
\* text: a <br> tag or whitespace shows as a space, "&" as a decoded entity
Produces(o, c) ==
  IF o < 0 \/ o >= Len(html) THEN FALSE
  ELSE IF BrLenAt(html, o + 1) > 0 \/ IsSpace(html[o + 1]) THEN c = " "
  ELSE html[o + 1] = c \/ html[o + 1] = "&"

\* C19: when findTextInHtml builds plainToHtml, the index has the length of
\* the plain-text projection the word scan runs on, and entry i is the offset
\* in the document of the character that produced character i of the
\* projection (a <br> tag giving one entry at the tag's position).
C19_IndexMatchesProjection ==
  (/\ call = "locate"
   /\ IndexOf(ToLower(PlainProjection), ToLower(normalizeText(originalText))) # -1)
    => /\ Len(PositionIndex) = Len(PlainProjection)
       /\ \A i \in 1..Len(PositionIndex) :
            i <= Len(PlainProjection) => Produces(PositionIndex[i], PlainProjection[i])

\* ----------------------------------------------------- claims on wrapText
NonEmptyWords(t) == SelectSeq(SplitOnSpace(t, 1, <<>>), LAMBDA w : Len(w) > 0)
WrappedLines == wrapText(edit.newText, edit.bbox.width, page.fontSize)
LineFits(line) == GlyphSum(line) * page.fontSize <= 1000 * edit.bbox.width

RECURSIVE WordsOfLines(_)
WordsOfLines(lines) ==
  IF Len(lines) = 0 THEN <<>>
  ELSE NonEmptyWords(Head(lines)) \o WordsOfLines(Tail(lines))

\* C20: wrapText is a greedy word wrap: no returned line is empty; the words
\* of the lines, in order, are the words of the text, none lost, duplicated
\* or reordered; a line of two or more words measures at most maxWidth; a
\* line wider than maxWidth is a single word itself wider than maxWidth; and
\* a line ends only where the next word would not fit on it.
C20_GreedyWrap ==
  EditDone
    => /\ \A k \in 1..Len(WrappedLines) : Len(WrappedLines[k]) > 0
       /\ WordsOfLines(WrappedLines) = NonEmptyWords(edit.newText)
       /\ \A k \in 1..Len(WrappedLines) :
            /\ Len(NonEmptyWords(WrappedLines[k])) >= 2 => LineFits(WrappedLines[k])
            /\ ~LineFits(WrappedLines[k])
                 => NonEmptyWords(WrappedLines[k]) = <<WrappedLines[k]>>
       /\ \A k \in 1..(Len(WrappedLines) - 1) :
            ~LineFits(WrappedLines[k] \o <<" ">> \o NonEmptyWords(WrappedLines[k + 1])[1])

C20_Witness ==
  /\ EditDone /\ page.layout = "wrap"
  /\ Len(WrappedLines) >= 3
  /\ \E k \in 1..Len(WrappedLines) :
       Len(NonEmptyWords(WrappedLines[k])) >= 2 /\ LineFits(WrappedLines[k])
  /\ \E k \in 1..Len(WrappedLines) : ~LineFits(WrappedLines[k])


\* ------------------------------------------- further claims on applyInPlaceEdit
\* the y of wrapped line i (0-based) and the level below which lines are dropped
LineY(i) ==
  pdfY + edit.bbox.height - page.fontSize - i * ((page.fontSize * 115) \div 100)
DropLevel == pdfY - page.fontSize
\* the lines the stated rule keeps: those whose y does not fall below the level
KeptLines == {i \in 0..(Len(WrappedLines) - 1) : LineY(i) >= DropLevel}

\* C21: on the wrap path, line i is drawn at LineY(i) and is left out exactly
\* when LineY(i) is below pdfY - fontSize, a line at exactly that level being
\* drawn; the drawn lines are a prefix of the wrapped lines, and for a box of
\* positive height the first line is drawn.
C21_DropBelowLevel ==
  (EditDone /\ page.layout = "wrap")
    => /\ KeptLines = 0..(Cardinality(KeptLines) - 1)
       /\ TextOps = [k \in 1..Cardinality(KeptLines) |->
                       DrawText(WrappedLines[k], edit.bbox.x, LineY(k - 1), page.fontSize)]
       /\ (edit.bbox.height > 0 /\ Len(WrappedLines) > 0) => Len(TextOps) >= 1


\* ---------------------------------------- the order of the drawing operations
\* the in-range edits met so far that lie on page p (0-based), in input order
EditsOnPage(p) ==
  SelectSeq([i \in 1..Len(drawn) |-> ChangeSetEdits[drawn[i]]],
            LAMBDA e : e.pageIndex = p)
\* the cover rectangle stated for edit e on a page of the given height
StatedCover(e, height) ==
  [op |-> "rect",
   x |-> e.bbox.x - 1 * Scale, y |-> height - e.bbox.y - e.bbox.height - 1 * Scale,
   width |-> e.bbox.width + 2 * Scale, height |-> e.bbox.height + 2 * Scale]
\* the number of rectangles among the first j operations
RectsUpTo(ops, j) == Cardinality({i \in 1..j : ops[i].op = "rect"})
\* the texts an edit may draw: its whole text or one of its wrapped pieces
PiecesOf(e) ==
  {e.newText} \cup {SplitOnSpace(e.newText, 1, <<>>)[k] :
                      k \in 1..Len(SplitOnSpace(e.newText, 1, <<>>))}

\* the operations on a page are, edit after edit in input order, one stated
\* cover rectangle followed by that edit's text operations
CoverThenText(ops, edits) ==
  /\ SelectSeq(ops, LAMBDA o : o.op = "rect")
       = [k \in 1..Len(edits) |-> StatedCover(edits[k], 792 * Scale)]
  /\ \A j \in 1..Len(ops) :
       ops[j].op = "text"
         => /\ RectsUpTo(ops, j) >= 1
            /\ RectsUpTo(ops, j) <= Len(edits)
            /\ ops[j].x = edits[RectsUpTo(ops, j)].bbox.x
            /\ ops[j].text \in PiecesOf(edits[RectsUpTo(ops, j)])

\* C22: at every point of the apply-edits loop and at its end, each page holds,
\* for every in-range edit on it in input order, exactly one cover rectangle at
\* (bbox.x - 1, pdfY - 1) of size (bbox.width + 2) by (bbox.height + 2), with
\* pdfY = pageHeight - bbox.y - bbox.height, issued before each text operation of
\* that edit, and all operations of an earlier edit precede those of a later one.
C22_CoverBeforeText ==
  InApplyEdits
    => \A p \in 1..Len(pdfDoc.pages) : CoverThenText(pdfDoc.pages[p], EditsOnPage(p - 1))

\* two overlapping edits on one page, the earlier one wrapped onto two lines:
\* the later edit's cover comes after the earlier edit's text
C22_Witness ==
  /\ InApplyEdits /\ pc = "done" /\ response.status = 200
  /\ \E p \in 1..Len(pdfDoc.pages) :
       LET ops == pdfDoc.pages[p]
       IN  /\ Len(ops) >= 5
           /\ ops[1].op = "rect" /\ ops[2].op = "text" /\ ops[3].op = "text"
           /\ ops[4].op = "rect" /\ ops[5].op = "text"
           /\ ops[4].x < ops[2].x /\ ops[2].x < ops[4].x + ops[4].width
           /\ ops[4].y < ops[2].y /\ ops[2].y < ops[4].y + ops[4].height

\* --------------------------------------------- html2pdf: the shared browser
\* concurrent convertHtmlToPdf calls within one server process
MaxCalls == 3
CallIds == 1..MaxCalls

InitBrowser ==
  /\ isProduction \in BOOLEAN
  /\ browserInstance = 0
  /\ browsers = {}
  /\ callPc = [c \in CallIds |-> "idle"]
  /\ callBrowser = [c \in CallIds |-> 0]
  /\ ReplaceIdle /\ EditIdle /\ RouteIdle /\ PageIdle
  /\ NormalizeIdle /\ NutrientIdle /\ UploadIdle

\* convertHtmlToPdf entered and getBrowser run up to its first await: the
\* handle is returned if set; otherwise the import (production) or the launch
\* (development) is started.
ConvertCall(c) ==
  /\ callPc[c] = "idle"
  /\ IF browserInstance # 0
     THEN /\ callBrowser' = [callBrowser EXCEPT ![c] = browserInstance]
          /\ callPc' = [callPc EXCEPT ![c] = "newPage"]
     ELSE /\ callPc' = [callPc EXCEPT ![c] = IF isProduction THEN "import" ELSE "relaunch"]
          /\ UNCHANGED callBrowser
  /\ UNCHANGED <<isProduction, browserInstance, browsers, offBrowser>>

\* production: import("@sparticuz/chromium") and executablePath() resolved
ImportDone(c) ==
  /\ callPc[c] = "import"
  /\ callPc' = [callPc EXCEPT ![c] = "launch"]
  /\ UNCHANGED <<isProduction, browserInstance, browsers, callBrowser, offBrowser>>

\* production: the import, executablePath() or the first launch threw; the
\* catch block starts the regular launch
FallBack(c) ==
  /\ callPc[c] \in {"import", "launch"}
  /\ callPc' = [callPc EXCEPT ![c] = "relaunch"]
  /\ UNCHANGED <<isProduction, browserInstance, browsers, callBrowser, offBrowser>>

\* puppeteer.launch resolved: the new browser is assigned to browserInstance
\* and returned
LaunchDone(c) ==
  /\ callPc[c] \in {"launch", "relaunch"}
  /\ browsers' = browsers \cup {c}
  /\ browserInstance' = c
  /\ callBrowser' = [callBrowser EXCEPT ![c] = c]
  /\ callPc' = [callPc EXCEPT ![c] = "newPage"]
  /\ UNCHANGED <<isProduction, offBrowser>>

\* the launch outside the try block threw: convertHtmlToPdf rejects
LaunchFails(c) ==
  /\ callPc[c] = "relaunch"
  /\ callPc' = [callPc EXCEPT ![c] = "failed"]
  /\ UNCHANGED <<isProduction, browserInstance, browsers, callBrowser, offBrowser>>

\* browser.newPage() to page.close(): the call renders on its browser
Render(c) ==
  /\ callPc[c] = "newPage"
  /\ callPc' = [callPc EXCEPT ![c] = "done"]
  /\ UNCHANGED <<isProduction, browserInstance, browsers, callBrowser, offBrowser>>

NextBrowser ==
  \E c \in CallIds :
    \/ ConvertCall(c)
    \/ ImportDone(c)
    \/ FallBack(c)
    \/ LaunchDone(c)
    \/ LaunchFails(c)
    \/ Render(c)

SpecBrowser == InitBrowser /\ [][NextBrowser]_vars

\* C23: with no closeBrowser in between, the browser is launched at most once,
\* every call uses that one instance, and no launched browser is left
\* unreferenced by browserInstance.
C23_SingleSharedBrowser ==
  /\ Cardinality(browsers) <= 1
  /\ \A c1, c2 \in DOMAIN callBrowser :
       (callBrowser[c1] # 0 /\ callBrowser[c2] # 0) => callBrowser[c1] = callBrowser[c2]
  /\ \A b \in browsers : browserInstance = b

\* ------------------------------------------------- normalizeText, run twice
\* inputs built from whitespace, a typographic quote, letters and the pieces of
\* entities, so that entity text nests within a few tokens
MaxNormTokens == 4
NormTokens ==
  {<<"a">>, <<" ">>, <<"U+2019">>, <<"&">>, <<"a", "m", "p", ";">>, <<"l", "t", ";">>}
NormInputs == TokenStrings(NormTokens, MaxNormTokens)

InitNormalize ==
  /\ normInput \in NormInputs
  /\ normalized = <<>>
  /\ normCalls = 0
  /\ ReplaceIdle /\ EditIdle /\ RouteIdle /\ PageIdle
  /\ BrowserIdle /\ NutrientIdle /\ UploadIdle

\* normalizeText(text), text being normInput
NormalizeOnce ==
  /\ normCalls = 0
  /\ normalized' = <<normalizeText(normInput)>>
  /\ normCalls' = 1
  /\ UNCHANGED <<normInput, offNormalize>>

\* normalizeText on the string the first call returned
NormalizeAgain ==
  /\ normCalls = 1
  /\ normalized' = Append(normalized, normalizeText(normalized[1]))
  /\ normCalls' = 2
  /\ UNCHANGED <<normInput, offNormalize>>

NextNormalize == NormalizeOnce \/ NormalizeAgain

SpecNormalize == InitNormalize /\ [][NextNormalize]_vars

\* C24: normalizeText is idempotent: normalizing its own result returns that
\* result unchanged, also for inputs holding entities or nested entity text.
C24_NormalizeIdempotent ==
  normCalls = 2 => normalized[2] = normalized[1]

\* ------------------------------------------- the word scan of findTextInHtml
\* the indexOf pre-check of findTextInHtml succeeds for a non-blank phrase
PreCheckSucceeds ==
  /\ Len(normalizeText(originalText)) > 0
  /\ IndexOf(ToLower(PlainProjection), ToLower(normalizeText(originalText))) # -1

\* C25: whenever the case-folded normalized phrase occurs in the case-folded
\* plain-text projection of the document, findTextInHtml returns a span, also
\* when a failed partial match overlaps the occurrence.
C25_ScanFindsOccurrence ==
  (call = "locate" /\ PreCheckSucceeds) => located.found

\* -------------------------------------------- the edit-pdf-nutrient route, run
\* the request body, the text blocks of the document's pages, and the SDK call
\* that throws ("none" when all succeed)
MaxReplacements == 2
ReplacementPool ==
  {[originalText |-> <<"a">>, newText |-> <<"c">>],
   [originalText |-> <<"B">>, newText |-> <<"c">>],
   [originalText |-> <<"a">>, newText |-> <<"d">>],
   [originalText |-> <<"a", " ", "b">>, newText |-> <<"c">>]}
ReplacementLists == UNION {[1..k -> ReplacementPool] : k \in 0..MaxReplacements}
BlockDocs ==
  {<< <<<<"a">>>> >>,
   << <<<<"a">>, <<"A", " ", " ", "B">>>>, <<<<"B">>>> >>,
   << <<<<"a">>, <<"a">>>> >>,
   << <<<<"x">>>>, <<>> >>}
FaultPoints ==
  {"none", "load", "license", "begin", "getTextBlocks", "updateTextBlocks",
   "commit", "discard", "exportPDF", "exportNull", "close"}
NutrientRequests ==
  {[route |-> "edit-pdf-nutrient", pdfBase64 |-> b, hasReplacements |-> h,
    replacements |-> r, blocks |-> d, throws |-> f] :
     b \in BOOLEAN, h \in BOOLEAN, r \in ReplacementLists, d \in BlockDocs,
     f \in FaultPoints}

InitNutrient ==
  /\ nutrientRequest \in NutrientRequests
  /\ nutrientPc = "start"
  /\ nutrientPageIndex = 0 /\ blockIndex = 0
  /\ remainingReplacements = <<>> /\ appliedReplacements = <<>>
  /\ totalReplacementsMade = 0 /\ updatedBlocks = <<>> /\ allUpdates = <<>>
  /\ nutrient = NothingLoaded /\ nutrientResponse = NoResponse
  /\ ReplaceIdle /\ EditIdle /\ RouteIdle /\ PageIdle
  /\ BrowserIdle /\ NormalizeIdle /\ UploadIdle

\* normalizeText of this route: whitespace, quotes, dashes, lower case, trim
normalizeBlockText(t) ==
  LET s1 == CollapseSpace(t)
  IN  Trim(ToLower([k \in 1..Len(s1) |-> Ascii(s1[k])]))

\* findAndApplyReplacement: the first replacement, from position k on, that
\* matches the block, with the block's new text; index is its position in
\* the list, 0 when none matches
RECURSIVE findAndApplyReplacement(_, _, _)
findAndApplyReplacement(blockText, replacements, k) ==
  IF k > Len(replacements)
  THEN [newText |-> blockText, matched |-> FALSE, index |-> 0]
  ELSE LET replacement == replacements[k]
           normalizedBlock == normalizeBlockText(blockText)
           normalizedOriginal == normalizeBlockText(replacement.originalText)
           index == IndexOf(ToLower(blockText), ToLower(replacement.originalText))
       IN  IF normalizedBlock = normalizedOriginal
           THEN [newText |-> replacement.newText, matched |-> TRUE, index |-> k]
           ELSE IF IndexOf(normalizedBlock, normalizedOriginal) # -1 /\ index # -1
           THEN [newText |-> Slice(blockText, 0, index) \o replacement.newText
                               \o Slice(blockText, index + Len(replacement.originalText),
                                        Len(blockText)),
                 matched |-> TRUE, index |-> k]
           ELSE findAndApplyReplacement(blockText, replacements, k + 1)

\* originalText.slice(0, 50)
Cut50(t) == Slice(t, 0, Min(50, Len(t)))

\* Splice that removes nothing.
SpliceNothing(list, k) == list

\* remainingReplacements.splice(idx, 1)
Splice(list, k) == SubSeq(list, 1, k - 1) \o SubSeq(list, k + 1, Len(list))

\* the call the handler makes next at each of its positions
NextSdkCalls ==
  CASE nutrientPc = "start" -> {"load", "license"}
    [] nutrientPc = "begin" -> {"begin"}
    [] nutrientPc = "page" -> {"getTextBlocks"}
    [] nutrientPc = "update" -> {"updateTextBlocks"}
    [] nutrientPc = "end" -> {IF totalReplacementsMade > 0 THEN "commit" ELSE "discard"}
    [] nutrientPc = "export" -> {"exportPDF"}
    [] nutrientPc = "close" -> {"close"}
    [] OTHER -> {}
Throws == nutrientRequest.throws \in NextSdkCalls

NutrientValid ==
  /\ nutrientRequest.pdfBase64 /\ nutrientRequest.hasReplacements
  /\ Len(nutrientRequest.replacements) > 0
pageCount == Len(nutrientRequest.blocks)
textBlocks == nutrientRequest.blocks[nutrientPageIndex + 1]

\* the checks on the body
NutrientReject ==
  /\ nutrientPc = "start" /\ ~NutrientValid
  /\ nutrientResponse' = ErrorResponse(400, "Missing pdfBase64 or replacements")
  /\ nutrientPc' = "done"
  /\ UNCHANGED <<nutrientRequest, nutrientPageIndex, blockIndex, remainingReplacements,
                 appliedReplacements, totalReplacementsMade, updatedBlocks, allUpdates,
                 nutrient, offNutrient>>

\* the catch block: the call made at this position throws; a licence message
\* is answered with 403, any other with 500
NutrientCatch ==
  /\ nutrientPc \notin {"start", "done"} \/ (nutrientPc = "start" /\ NutrientValid)
  /\ Throws
  /\ nutrientResponse' =
       IF nutrientRequest.throws = "license"
       THEN ErrorResponse(403, "Nutrient license/feature error")
       ELSE ErrorResponse(500, nutrientRequest.throws)
  /\ nutrientPc' = "done"
  /\ UNCHANGED <<nutrientRequest, nutrientPageIndex, blockIndex, remainingReplacements,
                 appliedReplacements, totalReplacementsMade, updatedBlocks, allUpdates,
                 nutrient, offNutrient>>

\* load(loadOptions)
NutrientLoad ==
  /\ nutrientPc = "start" /\ NutrientValid /\ ~Throws
  /\ nutrient' = [nutrient EXCEPT !.instance = "open"]
  /\ nutrientPc' = "begin"
  /\ UNCHANGED <<nutrientRequest, nutrientPageIndex, blockIndex, remainingReplacements,
                 appliedReplacements, totalReplacementsMade, updatedBlocks, allUpdates,
                 nutrientResponse, offNutrient>>

\* beginContentEditingSession and the loop's initialisation
NutrientBegin ==
  /\ nutrientPc = "begin" /\ ~Throws
  /\ nutrient' = [nutrient EXCEPT !.session = "open"]
  /\ remainingReplacements' =
       [k \in 1..Len(nutrientRequest.replacements) |->
          [position |-> k,
           originalText |-> nutrientRequest.replacements[k].originalText,
           newText |-> nutrientRequest.replacements[k].newText]]
  /\ appliedReplacements' = <<>>
  /\ totalReplacementsMade' = 0
  /\ nutrientPageIndex' = 0
  /\ nutrientPc' = "page"
  /\ UNCHANGED <<nutrientRequest, blockIndex, updatedBlocks, allUpdates, nutrientResponse,
                 offNutrient>>

\* the top of the page loop: getTextBlocks for the page
NutrientGetTextBlocks ==
  /\ nutrientPc = "page" /\ nutrientPageIndex < pageCount /\ ~Throws
  /\ blockIndex' = 1
  /\ updatedBlocks' = <<>>
  /\ nutrientPc' = "blocks"
  /\ UNCHANGED <<nutrientRequest, nutrientPageIndex, remainingReplacements,
                 appliedReplacements, totalReplacementsMade, allUpdates, nutrient,
                 nutrientResponse, offNutrient>>

\* one pass of the block loop
NutrientBlock ==
  /\ nutrientPc = "blocks" /\ blockIndex <= Len(textBlocks)
  /\ LET result == findAndApplyReplacement(textBlocks[blockIndex], remainingReplacements, 1)
         update == [page |-> nutrientPageIndex, block |-> blockIndex,
                    text |-> result.newText]
     IN  IF result.matched
         THEN /\ updatedBlocks' = Append(updatedBlocks, update)
              /\ allUpdates' =
                   Append(allUpdates,
                          [page |-> nutrientPageIndex, block |-> blockIndex,
                           position |-> remainingReplacements[result.index].position])
              /\ remainingReplacements' = Splice(remainingReplacements, result.index)
              /\ appliedReplacements' =
                   Append(appliedReplacements,
                          Cut50(remainingReplacements[result.index].originalText))
              /\ totalReplacementsMade' = totalReplacementsMade + 1
         ELSE UNCHANGED <<updatedBlocks, allUpdates, remainingReplacements,
                          appliedReplacements, totalReplacementsMade>>
  /\ blockIndex' = blockIndex + 1
  /\ UNCHANGED <<nutrientRequest, nutrientPc, nutrientPageIndex, nutrient, nutrientResponse,
                 offNutrient>>

\* the block loop is over: on to the page's updates
NutrientBlocksDone ==
  /\ nutrientPc = "blocks" /\ blockIndex > Len(textBlocks)
  /\ nutrientPc' = IF Len(updatedBlocks) > 0 THEN "update" ELSE "page"
  /\ nutrientPageIndex' =
       IF Len(updatedBlocks) > 0 THEN nutrientPageIndex ELSE nutrientPageIndex + 1
  /\ UNCHANGED <<nutrientRequest, blockIndex, remainingReplacements, appliedReplacements,
                 totalReplacementsMade, updatedBlocks, allUpdates, nutrient,
                 nutrientResponse, offNutrient>>

\* updateTextBlocks for the page, then the next page
NutrientUpdateTextBlocks ==
  /\ nutrientPc = "update" /\ ~Throws
  /\ nutrientPageIndex' = nutrientPageIndex + 1
  /\ nutrientPc' = "page"
  /\ UNCHANGED <<nutrientRequest, blockIndex, remainingReplacements, appliedReplacements,
                 totalReplacementsMade, updatedBlocks, allUpdates, nutrient,
                 nutrientResponse, offNutrient>>

\* the page loop is over
NutrientPagesDone ==
  /\ nutrientPc = "page" /\ nutrientPageIndex >= pageCount
  /\ nutrientPc' = "end"
  /\ UNCHANGED <<nutrientRequest, nutrientPageIndex, blockIndex, remainingReplacements,
                 appliedReplacements, totalReplacementsMade, updatedBlocks, allUpdates,
                 nutrient, nutrientResponse, offNutrient>>

\* session.commit() when a replacement was made, session.discard() otherwise
NutrientEndSession ==
  /\ nutrientPc = "end" /\ ~Throws
  /\ nutrient' = [nutrient EXCEPT !.session =
                    IF totalReplacementsMade > 0 THEN "committed" ELSE "discarded"]
  /\ nutrientPc' = "export"
  /\ UNCHANGED <<nutrientRequest, nutrientPageIndex, blockIndex, remainingReplacements,
                 appliedReplacements, totalReplacementsMade, updatedBlocks, allUpdates,
                 nutrientResponse, offNutrient>>

\* instance.exportPDF()
NutrientExport ==
  /\ nutrientPc = "export" /\ ~Throws
  /\ nutrientPc' = "close"
  /\ UNCHANGED <<nutrientRequest, nutrientPageIndex, blockIndex, remainingReplacements,
                 appliedReplacements, totalReplacementsMade, updatedBlocks, allUpdates,
                 nutrient, nutrientResponse, offNutrient>>

\* instance.close(), the test of the exported buffer, and the response
NutrientCloseAndRespond ==
  /\ nutrientPc = "close" /\ ~Throws
  /\ nutrient' = [nutrient EXCEPT !.instance = "closed"]
  /\ nutrientResponse' =
       IF nutrientRequest.throws = "exportNull"
       THEN ErrorResponse(500, "Failed to export PDF")
       ELSE [status |-> 200, body |-> "json",
             success |-> totalReplacementsMade > 0,
             replacementsMade |-> totalReplacementsMade,
             appliedReplacements |-> appliedReplacements,
             notApplied |-> [k \in 1..Len(remainingReplacements) |->
                               Cut50(remainingReplacements[k].originalText)]]
  /\ nutrientPc' = "done"
  /\ UNCHANGED <<nutrientRequest, nutrientPageIndex, blockIndex, remainingReplacements,
                 appliedReplacements, totalReplacementsMade, updatedBlocks, allUpdates,
                 offNutrient>>

NextNutrient ==
  \/ NutrientReject \/ NutrientCatch \/ NutrientLoad \/ NutrientBegin
  \/ NutrientGetTextBlocks \/ NutrientBlock \/ NutrientBlocksDone
  \/ NutrientUpdateTextBlocks \/ NutrientPagesDone \/ NutrientEndSession
  \/ NutrientExport \/ NutrientCloseAndRespond

SpecNutrient == InitNutrient /\ [][NextNutrient]_vars

\* ------------------------------------------ claims on the edit-pdf-nutrient route
InPageLoop == nutrientPc \in {"page", "blocks", "update", "end"}
NutrientAnswered == nutrientPc = "done" /\ nutrientResponse.status = 200
Requested == nutrientRequest.replacements
AppliedPositions == {allUpdates[i].position : i \in 1..Len(allUpdates)}
RemainingPositions == {remainingReplacements[i].position : i \in 1..Len(remainingReplacements)}
SeqRange(list) == {list[i] : i \in 1..Len(list)}

\* each replacement goes to at most one block, each block gets at most one
\* replacement, and the counter and the remaining list add up
OneToOne ==
  /\ \A i, j \in 1..Len(allUpdates) :
       i # j => /\ allUpdates[i].position # allUpdates[j].position
                /\ <<allUpdates[i].page, allUpdates[i].block>>
                     # <<allUpdates[j].page, allUpdates[j].block>>
  /\ totalReplacementsMade = Len(allUpdates)
  /\ totalReplacementsMade + Len(remainingReplacements) = Len(Requested)

\* what the response reports
ResponseCounts ==
  /\ nutrientResponse.replacementsMade + Len(nutrientResponse.notApplied) = Len(Requested)
  /\ Len(nutrientResponse.appliedReplacements) = nutrientResponse.replacementsMade
  /\ nutrientResponse.success <=> nutrientResponse.replacementsMade > 0
  /\ \A k \in 1..Len(Requested) :
       Cut50(Requested[k].originalText)
         \in SeqRange(nutrientResponse.appliedReplacements)
               \cup SeqRange(nutrientResponse.notApplied)

\* C26, as stated: besides the counts, the lists appliedReplacements and
\* notApplied of the response have no entry in common.
C26_Stated ==
  /\ InPageLoop => OneToOne
  /\ NutrientAnswered
       => /\ OneToOne /\ ResponseCounts
          /\ SeqRange(nutrientResponse.appliedReplacements)
               \cap SeqRange(nutrientResponse.notApplied) = {}

\* C26, amended: at every point of the page loop and in the response, each
\* requested replacement has gone to at most one block and each block has got
\* at most one replacement; replacementsMade plus the number of remaining
\* replacements is the number requested; the replacements applied and the
\* ones remaining, taken by their position in the request, are disjoint and
\* cover the request, the response listing their texts in order; and success
\* is true exactly when replacementsMade > 0.
C26_Partition ==
  /\ InPageLoop
       => /\ OneToOne
          /\ AppliedPositions \cap RemainingPositions = {}
          /\ AppliedPositions \cup RemainingPositions = 1..Len(Requested)
  /\ NutrientAnswered
       => /\ OneToOne /\ ResponseCounts
          /\ AppliedPositions \cap RemainingPositions = {}
          /\ AppliedPositions \cup RemainingPositions = 1..Len(Requested)
          /\ nutrientResponse.appliedReplacements
               = [i \in 1..Len(allUpdates) |->
                    Cut50(Requested[allUpdates[i].position].originalText)]
          /\ nutrientResponse.notApplied
               = [i \in 1..Len(remainingReplacements) |->
                    Cut50(Requested[remainingReplacements[i].position].originalText)]

\* a response reporting one replacement applied and one not
C26_Witness ==
  /\ NutrientAnswered
  /\ nutrientResponse.replacementsMade >= 1
  /\ Len(nutrientResponse.notApplied) >= 1

\* C27: when the handler has returned, on every path, a session that was begun
\* has been ended, by commit exactly when a replacement was made and by
\* discard otherwise, and an instance that was loaded has been closed.
C27_SessionEndedInstanceClosed ==
  nutrientPc = "done"
    => /\ nutrient.session # "open"
       /\ nutrient.session = "committed" => totalReplacementsMade > 0
       /\ nutrient.session = "discarded" => totalReplacementsMade = 0
       /\ nutrient.instance # "open"

\* ------------------------------------- further claims on the PDF-mapping page
HasLiveEdit(id) == \E k \in 1..Len(appliedEdits) : appliedEdits[k].suggestionId = id

\* C28: in the PDF-mapping workflow, after any sequence of accept, reject,
\* restore, select for mapping, cancel, mapping complete and re-map, a
\* suggestion has an edit in appliedEdits exactly when its status is "mapped".
C28_EditIffMapped ==
  version = "pdf"
    => \A k \in 1..Len(suggestions) :
         HasLiveEdit(suggestions[k].id) <=> suggestions[k].status = "mapped"

\* one suggestion mapped a second time, holding its edit, next to one that was
\* rejected and holds none
C28_Witness ==
  /\ version = "pdf" /\ Len(suggestions) = 2
  /\ suggestions[1].status = "mapped" /\ HasLiveEdit(suggestions[1].id)
  /\ suggestions[2].status = "rejected" /\ ~HasLiveEdit(suggestions[2].id)
  /\ lastCall.name = "handleUpdateSuggestionStatus"

\* C29: in the PDF-mapping workflow a step makes a suggestion "mapped", or
\* gives it an edit, only if the suggestion was "accepted" or "mapped" before
\* the step: a suggestion that is "rejected" or "pending" when the mapping
\* completes stays as it is and gets no edit.
C29_MappedOnlyFromAccepted ==
  [][(version = "pdf" /\ Len(suggestions') = Len(suggestions))
       => \A k \in 1..Len(suggestions) :
            suggestions[k].status \in {"rejected", "pending"}
              => /\ suggestions'[k].status # "mapped"
                 /\ ~HasLiveEdit(suggestions[k].id)'
    ]_vars

\* ------------------------------------------ HTML workflow: handleUploadSubmit
\* what the awaited calls of one submission do: file.arrayBuffer(), the fetch
\* of /api/pdf-to-html and the fetch of /api/optimize with their bodies
FetchOutcomes == {"ok", "rejects", "notOk", "notOkNoBody", "badJson"}
Uploads ==
  {[file |-> "resume.pdf", bytes |-> b, htmlRes |-> h, html |-> d,
    suggestRes |-> o, suggestions |-> g] :
     b \in {"ok", "rejects"}, h \in FetchOutcomes,
     d \in {<<"a">>, <<"a", "<", "i", ">", "B">>},
     o \in FetchOutcomes,
     g \in {l \in SuggestionLists : Len(l) <= 1}}

InitUpload ==
  /\ upload \in Uploads
  /\ uploadPc = "idle"
  /\ isLoading = FALSE
  /\ error \in {"null", "An error occurred"}
  /\ version = "html" /\ step = "upload" /\ suggestions = <<>>
  /\ htmlContent = <<>> /\ appliedEdits = <<>>
  /\ activeMappingSuggestion = NoSuggestion /\ lastCall = NoCall
  /\ ReplaceIdle /\ EditIdle /\ RouteIdle
  /\ BrowserIdle /\ NormalizeIdle /\ NutrientIdle

\* the message the catch block gets for a failed fetch step
FetchError(outcome, fallback) ==
  CASE outcome = "rejects" -> "Failed to fetch"
    [] outcome = "notOk" -> "error of the response body"
    [] outcome = "notOkNoBody" -> fallback
    [] outcome = "badJson" -> "Unexpected token"

\* the handler up to its first await: file.arrayBuffer()
UploadSubmit ==
  /\ uploadPc = "idle"
  /\ isLoading' = TRUE
  /\ error' = "null"
  /\ uploadPc' = "reading"
  /\ UNCHANGED <<upload, pageVars, offUpload>>

\* file.arrayBuffer() resolved: the try block up to the first fetch
UploadBytesRead ==
  /\ uploadPc = "reading" /\ upload.bytes = "ok"
  /\ step' = "converting"
  /\ uploadPc' = "converting"
  /\ UNCHANGED <<upload, isLoading, error, version, suggestions, htmlContent,
                 mappingVars, lastCall, offUpload>>

\* file.arrayBuffer() rejected: the await is outside the try block, so the
\* handler's promise rejects and nothing more of it runs
UploadBytesFail ==
  /\ uploadPc = "reading" /\ upload.bytes = "rejects"
  /\ uploadPc' = "ended"
  /\ UNCHANGED <<upload, isLoading, error, pageVars, offUpload>>

\* /api/pdf-to-html answered with a document: on to the second fetch
UploadConverted ==
  /\ uploadPc = "converting" /\ upload.htmlRes = "ok"
  /\ htmlContent' = upload.html
  /\ uploadPc' = "suggesting"
  /\ UNCHANGED <<upload, isLoading, error, version, step, suggestions, mappingVars,
                 lastCall, offUpload>>

\* /api/optimize answered with the suggestions: the end of the try block and
\* the finally block
UploadSuggested ==
  /\ uploadPc = "suggesting" /\ upload.suggestRes = "ok"
  /\ suggestions' = upload.suggestions
  /\ step' = "editing"
  /\ isLoading' = FALSE
  /\ uploadPc' = "ended"
  /\ UNCHANGED <<upload, error, version, htmlContent, mappingVars, lastCall, offUpload>>

\* a fetch step failed: the catch block and the finally block
UploadCatch ==
  /\ \/ uploadPc = "converting" /\ upload.htmlRes # "ok"
     \/ uploadPc = "suggesting" /\ upload.suggestRes # "ok"
  /\ error' = (IF uploadPc = "converting"
               THEN FetchError(upload.htmlRes, "PDF conversion failed: 500")
               ELSE FetchError(upload.suggestRes, "Suggestion generation failed: 500"))
  /\ step' = "upload"
  /\ isLoading' = FALSE
  /\ uploadPc' = "ended"
  /\ UNCHANGED <<upload, version, suggestions, htmlContent, mappingVars, lastCall,
                 offUpload>>

NextUpload ==
  \/ UploadSubmit \/ UploadBytesRead \/ UploadBytesFail
  \/ UploadConverted \/ UploadSuggested \/ UploadCatch

SpecUpload == InitUpload /\ [][NextUpload]_vars

AllStepsSucceed ==
  upload.bytes = "ok" /\ upload.htmlRes = "ok" /\ upload.suggestRes = "ok"

\* C30: whichever of the three steps fails, a submission that has ended has
\* left isLoading = false, with step "editing" and no error when every step
\* succeeded and step "upload" with an error message when one failed; step is
\* not left at "converting".
C30_SubmissionSettles ==
  uploadPc = "ended"
    => /\ isLoading = FALSE
       /\ step # "converting"
       /\ IF AllStepsSucceed
          THEN step = "editing" /\ error = "null"
          ELSE step = "upload" /\ error # "null"

====
